---- MODULE Spec2Model ----
(***************************************************************************)
(* A model of pexif (src/pexif.py): the JPEG segment framer, the Exif      *)
(* segment codec, the IFD decoder and encoder, the directory operations    *)
(* and the JpegFile facade.                                                *)
(*                                                                         *)
(* A Python str is a sequence of byte values 0..255.  An exception is the  *)
(* record Err(name).  A 32-bit field read with "I" is an integer; the two  *)
(* fields of a Rational are kept as two 16-bit halves [hi, lo] so that     *)
(* numerators above 2^31 (GPS seconds over SEC_DEN) stay exact.            *)
(***************************************************************************)
EXTENDS Integers, Sequences, FiniteSets, TLC

VARIABLES input, jf, out, prevOut, jf2, out2, last, nops

vars == <<input, jf, out, prevOut, jf2, out2, last, nops>>

(***************************************************************************)
(* Module constants of pexif.py                                            *)
(***************************************************************************)
DELIM == 255
EOI == 217
SOI == 216
SOS == 218
APP1 == 225
EXIF_OFFSET == 34665
TIFF_OFFSET == 6
TIFF_TAG == 42
SEC_DEN == 50000000

BYTE == 1
ASCII == 2
SHORT == 3
LONG == 4
RATIONAL == 5
UNDEFINED == 7
SLONG == 9
SRATIONAL == 10

Make == 271
GPSIFD == 34853
InteroparabilityIFD == 40965
MakerNote == 37500
JPEGInterchangeFormat == 513
JPEGInterchangeFormatLength == 514
Orientation == 274
ExifVersion == 36864
DateTimeOriginal == 36867
GPSVersionID == 0
GPSLatitudeRef == 1
GPSLatitude == 2
GPSLongitudeRef == 3
GPSLongitude == 4

SOI_MARKER == <<DELIM, SOI>>
EOI_MARKER == <<DELIM, EOI>>
ExifSig == <<69, 120, 105, 102>>
FujiSig == <<70, 85, 74, 73, 70, 73, 76, 77>>
CanonStr == <<67, 97, 110, 111, 110>>

(***************************************************************************)
(* Python values                                                           *)
(***************************************************************************)
Err(x) == [ok |-> FALSE, err |-> x]

None == [k |-> "none"]
PyStr(s) == [k |-> "str", v |-> s]
Chars(s) == [k |-> "chars", v |-> s]
Ints(s) == [k |-> "ints", v |-> s]
Rats(s) == [k |-> "rats", v |-> s]
IfdVal(d) == [k |-> "ifd", v |-> d]

Big(n) == [hi |-> n \div 65536, lo |-> n % 65536]
Rational(num, den) == [num |-> num, den |-> den]

\* x when x is an exception, else what K makes of it
Then(x, K(_)) == IF x.ok THEN K(x) ELSE x

\* K applied to the value of x
With(x, K(_)) == K(x)

Min(a, b) == IF a < b THEN a ELSE b
Max(a, b) == IF a > b THEN a ELSE b

\* s[a:b] for 0 <= a, 0 <= b
Slice(s, a, b) == SubSeq(s, a + 1, Min(b, Len(s)))

\* s[a:]
SliceFrom(s, a) == SubSeq(s, a + 1, Len(s))

RECURSIVE LStrip(_)
LStrip(s) == IF s # <<>> /\ Head(s) = 0 THEN LStrip(Tail(s)) ELSE s

RECURSIVE RStrip(_)
RStrip(s) ==
  IF s # <<>> /\ s[Len(s)] = 0 THEN RStrip(SubSeq(s, 1, Len(s) - 1)) ELSE s

\* s.strip('\0')
Strip(s) == RStrip(LStrip(s))

Zeros(n) == [i \in 1..n |-> 0]

RECURSIVE Concat(_)
Concat(ss) == IF ss = <<>> THEN <<>> ELSE Head(ss) \o Concat(Tail(ss))

(***************************************************************************)
(* struct.pack / struct.unpack for the formats the module uses             *)
(***************************************************************************)
PackH(e, n) ==
  IF e = "<" THEN <<n % 256, n \div 256>> ELSE <<n \div 256, n % 256>>

PackI(e, n) ==
  LET b0 == n % 256
      b1 == (n \div 256) % 256
      b2 == (n \div 65536) % 256
      b3 == n \div 16777216
  IN IF e = "<" THEN <<b0, b1, b2, b3>> ELSE <<b3, b2, b1, b0>>

\* "i": two's complement
PackSI(e, n) ==
  IF n >= 0 THEN PackI(e, n)
  ELSE LET m == n + 2147483647 + 1
           b0 == m % 256
           b1 == (m \div 256) % 256
           b2 == (m \div 65536) % 256
           b3 == (m \div 16777216) + 128
       IN IF e = "<" THEN <<b0, b1, b2, b3>> ELSE <<b3, b2, b1, b0>>

PackBig(e, n) == PackH(e, IF e = "<" THEN n.lo ELSE n.hi)
                 \o PackH(e, IF e = "<" THEN n.hi ELSE n.lo)

UnpackH(e, s) == IF e = "<" THEN s[1] + 256 * s[2] ELSE s[2] + 256 * s[1]

UnpackI(e, s) ==
  IF e = "<" THEN s[1] + 256 * s[2] + 65536 * s[3] + 16777216 * s[4]
  ELSE s[4] + 256 * s[3] + 65536 * s[2] + 16777216 * s[1]

UnpackSI(e, s) ==
  LET t == IF e = "<" THEN s ELSE <<s[4], s[3], s[2], s[1]>>
      top == IF t[4] >= 128 THEN t[4] - 256 ELSE t[4]
  IN t[1] + 256 * t[2] + 65536 * t[3] + 16777216 * top

UnpackBig(e, s) ==
  IF e = "<"
  THEN [hi |-> UnpackH(e, SubSeq(s, 3, 4)), lo |-> UnpackH(e, SubSeq(s, 1, 2))]
  ELSE [hi |-> UnpackH(e, SubSeq(s, 1, 2)), lo |-> UnpackH(e, SubSeq(s, 3, 4))]

(***************************************************************************)
(* exif_types and the tag dictionaries                                     *)
(***************************************************************************)
ExifTypes == {BYTE, ASCII, SHORT, LONG, RATIONAL, UNDEFINED, SLONG, SRATIONAL}

exif_type_size(t) ==
  CASE t \in {BYTE, ASCII, UNDEFINED} -> 1
    [] t = SHORT -> 2
    [] t \in {LONG, SLONG} -> 4
    [] t \in {RATIONAL, SRATIONAL} -> 8

TiffTyped ==
  [t \in {256, 257, 273, 278, 279, 513, 514, 34665, 34853, 40965} |-> LONG]
  @@ [t \in {258, 259, 262, 274, 277, 284, 296, 530, 531} |-> SHORT]
  @@ [t \in {270, 271, 272, 305, 306, 315, 33432} |-> ASCII]
  @@ [t \in {282, 283} |-> RATIONAL]

GpsTyped ==
  [t \in {0, 5} |-> BYTE] @@ [t \in {1, 3} |-> ASCII]
  @@ [t \in {2, 4, 6} |-> RATIONAL]

ExifTyped == [t \in {36867, 36868} |-> ASCII]

ExifUntyped ==
  {33434, 33437, 34850, 34852, 34855, 34857, 36864, 37121, 37122, 37377,
   37378, 37379, 37380, 37381, 37382, 37383, 37384, 37385, 37386, 37396,
   37500, 37510, 37520, 37521, 37522, 40960, 40961, 40962, 40963, 40964,
   41483, 41484, 41486, 41487, 41488, 41492, 41493, 41495, 41728, 41729,
   41730, 41985, 41986, 41987, 41988, 41989, 41990, 41991, 41994, 41996,
   42016}

InteropUntyped == {1, 2, 4096, 4097, 4098}

CanonUntyped == {6, 7, 8, 9, 12, 15}

FujiUntyped ==
  {0, 4096, 4097, 4098, 4099, 4100, 4112, 4113, 4128, 4129, 4144, 4145, 4352,
   4353, 4624, 4864, 4865, 4866}

\* the keys of cls.tags whose record has a third element, with that element
TypedTags(cls) ==
  CASE cls \in {"IfdTIFF", "IfdThumbnail"} -> TiffTyped
    [] cls = "IfdGPS" -> GpsTyped
    [] cls = "IfdExtendedEXIF" -> ExifTyped
    [] OTHER -> << >>

\* the keys of cls.tags whose record has only the two names
UntypedTags(cls) ==
  CASE cls = "IfdExtendedEXIF" -> ExifUntyped
    [] cls = "IfdInterop" -> InteropUntyped
    [] cls = "CanonIFD" -> CanonUntyped
    [] cls = "FujiIFD" -> FujiUntyped
    [] OTHER -> {}

\* cls.embedded_tags: tag -> the class (or factory) that decodes it
EmbeddedTags(cls) ==
  CASE cls \in {"IfdTIFF", "IfdThumbnail"} ->
         (InteroparabilityIFD :> "IfdInterop") @@ (EXIF_OFFSET :> "IfdExtendedEXIF")
         @@ (GPSIFD :> "IfdGPS")
    [] cls = "IfdExtendedEXIF" -> (MakerNote :> "IfdMakerNote")
    [] OTHER -> << >>

(***************************************************************************)
(* IfdData.__init__: decoding one directory.  exif_file.make is threaded   *)
(* through as make: Unset until the Make entry of a TIFF directory has     *)
(* been decoded.                                                           *)
(***************************************************************************)
Unset == [k |-> "unset"]

Ifd(cls, e, entries, jpeg_data) ==
  [cls |-> cls, e |-> e, entries |-> entries, jpeg_data |-> jpeg_data]

Entry(tag, type, val) == [tag |-> tag, type |-> type, val |-> val]

\* the value of one entry that is not an embedded directory (lines 270-299)
DecodeValue(e, type, comps, raw) ==
  CASE type \in {BYTE, UNDEFINED} -> [ok |-> TRUE, val |-> Chars(raw)]
    [] type = ASCII ->
         IF raw = <<>> THEN Err("IndexError")
         ELSE [ok |-> TRUE, val |-> PyStr(raw)]
    [] type = SHORT ->
         IF Len(raw) # 2 * comps THEN Err("struct.error")
         ELSE [ok |-> TRUE,
               val |-> Ints([i \in 1..comps |->
                              UnpackH(e, SubSeq(raw, 2 * i - 1, 2 * i))])]
    [] type = LONG ->
         IF Len(raw) # 4 * comps THEN Err("struct.error")
         ELSE [ok |-> TRUE,
               val |-> Ints([i \in 1..comps |->
                              UnpackI(e, SubSeq(raw, 4 * i - 3, 4 * i))])]
    [] type = SLONG ->
         IF Len(raw) # 4 * comps THEN Err("struct.error")
         ELSE [ok |-> TRUE,
               val |-> Ints([i \in 1..comps |->
                              UnpackSI(e, SubSeq(raw, 4 * i - 3, 4 * i))])]
    [] type \in {RATIONAL, SRATIONAL} ->
         IF Len(raw) # 8 * comps THEN Err("struct.error")
         ELSE [ok |-> TRUE,
               val |-> Rats([i \in 1..comps |->
                              Rational(UnpackBig(e, SubSeq(raw, 8 * i - 7, 8 * i - 4)),
                                       UnpackBig(e, SubSeq(raw, 8 * i - 3, 8 * i)))])]

\* IfdTIFF.special_handler (lines 630-632); the other classes pass
special_handler(cls, tag, val, make) ==
  IF cls \in {"IfdTIFF", "IfdThumbnail"} /\ tag = Make
  THEN IF val.k = "str" THEN [ok |-> TRUE, make |-> PyStr(Strip(val.v))]
       ELSE Err("AttributeError")
  ELSE [ok |-> TRUE, make |-> make]

\* the value of the last entry with this tag, None if there is none
RECURSIVE LastValOf(_, _)
LastValOf(entries, tag) ==
  IF entries = <<>> THEN None
  ELSE IF entries[Len(entries)].tag = tag THEN entries[Len(entries)].val
  ELSE LastValOf(SubSeq(entries, 1, Len(entries) - 1), tag)

\* val[0] fails on an empty str or list
EmptyVal(entries, tag) ==
  \E i \in 1..Len(entries) :
    entries[i].tag = tag /\ entries[i].val.k # "ifd" /\ entries[i].val.v = <<>>

\* the thumbnail taken without comparing its length with the declared size
ThumbnailData_Unchecked(d, data, ov, sv) ==
  IF ov.k = "none" \/ sv.k = "none" THEN Err("InvalidFile")
  ELSE IF ov.k # "ints" \/ sv.k # "ints" THEN Err("TypeError")
  ELSE [ok |-> TRUE,
        ifd |-> [d EXCEPT !.jpeg_data = Slice(data, ov.v[1], ov.v[1] + sv.v[1])]]

\* lines 658-662 with the offset and size found
ThumbnailData(d, data, ov, sv) ==
  IF ov.k = "none" \/ sv.k = "none" THEN Err("InvalidFile")
  ELSE IF ov.k # "ints" \/ sv.k # "ints" THEN Err("TypeError")
  ELSE IF Len(Slice(data, ov.v[1], ov.v[1] + sv.v[1])) # sv.v[1]
    THEN Err("InvalidFile")
  ELSE [ok |-> TRUE,
        ifd |-> [d EXCEPT !.jpeg_data = Slice(data, ov.v[1], ov.v[1] + sv.v[1])]]

\* IfdThumbnail.ifd_handler (lines 647-662); the other classes pass
ifd_handler(d, data) ==
  IF d.cls # "IfdThumbnail" THEN [ok |-> TRUE, ifd |-> d]
  ELSE IF EmptyVal(d.entries, JPEGInterchangeFormat)
          \/ EmptyVal(d.entries, JPEGInterchangeFormatLength)
    THEN Err("IndexError")
  ELSE ThumbnailData(d, data, LastValOf(d.entries, JPEGInterchangeFormat),
                     LastValOf(d.entries, JPEGInterchangeFormatLength))

RECURSIVE DecodeIfd(_, _, _, _, _)
RECURSIVE DecodeEntries(_, _, _, _, _, _, _, _)

\* IfdMakerNote (lines 462-488) and the classes of embedded_tags
DecodeEmbedded(sub, e, offset, data, make) ==
  IF sub = "IfdMakerNote" /\ make = Unset THEN Err("AttributeError")
  ELSE IF sub = "IfdMakerNote" /\ make.v \notin {CanonStr, FujiSig}
    THEN Err("InvalidFile")
  ELSE IF sub = "IfdMakerNote" /\ make.v = FujiSig
          /\ Slice(data, offset, offset + 8) # FujiSig
    THEN Err("InvalidFile")
  ELSE IF sub = "IfdMakerNote" /\ make.v = FujiSig
          /\ Len(Slice(data, offset + 8, offset + 12)) # 4
    THEN Err("struct.error")
  ELSE DecodeIfd(
         CASE sub # "IfdMakerNote" -> sub
           [] sub = "IfdMakerNote" /\ make.v = CanonStr -> "CanonIFD"
           [] OTHER -> "FujiIFD",
         IF sub = "IfdMakerNote" THEN "<" ELSE e,
         IF sub = "IfdMakerNote" /\ make.v = FujiSig
         THEN UnpackI("<", Slice(data, offset + 8, offset + 12)) ELSE offset,
         IF sub = "IfdMakerNote" /\ make.v = FujiSig
         THEN SliceFrom(data, offset) ELSE data,
         make)

\* lines 270-274: the bytes of a value, out of line when over four bytes
RawValue(data, start, byte_size, the_data) ==
  IF byte_size > 4 THEN Slice(data, the_data, the_data + byte_size)
  ELSE Slice(data, start + 8, start + 8 + byte_size)

\* lines 258-306: the entry decoded from the record (tag, type, comps,
\* the_data) at start, with exif_file.make as decoding it leaves it
DecodeEntry(cls, e, data, make, start, tag, type, comps, the_data) ==
  IF type \notin ExifTypes THEN Err("TypeError")
  ELSE IF tag \in DOMAIN EmbeddedTags(cls)
    THEN Then(DecodeEmbedded(EmbeddedTags(cls)[tag], e, the_data, data, make),
              LAMBDA r : [ok |-> TRUE, entry |-> Entry(tag, type, IfdVal(r.ifd)),
                          make |-> r.make])
  ELSE Then(DecodeValue(e, type, comps,
                        RawValue(data, start, exif_type_size(type) * comps,
                                 the_data)),
            LAMBDA v : Then(special_handler(cls, tag, v.val, make),
                            LAMBDA h : [ok |-> TRUE,
                                        entry |-> Entry(tag, type, v.val),
                                        make |-> h.make]))

\* the loop of lines 254-310, entry i of n, acc the entries decoded so far
DecodeEntries(cls, e, offset, data, make, i, n, acc) ==
  IF i = n THEN [ok |-> TRUE, entries |-> acc, make |-> make]
  ELSE IF Len(Slice(data, (i * 12) + 2 + offset, (i * 12) + 2 + offset + 12)) # 12
    THEN Err("struct.error")
  ELSE Then(With(Slice(data, (i * 12) + 2 + offset, (i * 12) + 2 + offset + 12),
                 LAMBDA rec :
                   DecodeEntry(cls, e, data, make, (i * 12) + 2 + offset,
                               UnpackH(e, SubSeq(rec, 1, 2)),
                               UnpackH(e, SubSeq(rec, 3, 4)),
                               UnpackI(e, SubSeq(rec, 5, 8)),
                               UnpackI(e, SubSeq(rec, 9, 12)))),
            LAMBDA r : DecodeEntries(cls, e, offset, data, r.make, i + 1, n,
                                     Append(acc, r.entry)))

\* the entry count at offset and the bytes of the next-directory field
NumEntries(e, offset, data) == UnpackH(e, Slice(data, offset, offset + 2))

NextField(e, offset, data) ==
  Slice(data, offset + 2 + 12 * NumEntries(e, offset, data),
        offset + 2 + 12 * NumEntries(e, offset, data) + 4)

\* IfdData.__init__ with data (lines 243-311)
DecodeIfd(cls, e, offset, data, make) ==
  IF Len(Slice(data, offset, offset + 2)) # 2 THEN Err("struct.error")
  ELSE IF Len(NextField(e, offset, data)) # 4 THEN Err("struct.error")
  ELSE Then(DecodeEntries(cls, e, offset, data, make, 0,
                          NumEntries(e, offset, data), <<>>),
            LAMBDA r : Then(ifd_handler(Ifd(cls, e, r.entries, <<>>), data),
                            LAMBDA h : [ok |-> TRUE, ifd |-> h.ifd,
                                        make |-> r.make]))

(***************************************************************************)
(* IfdData.getdata: encoding one directory.  e is the byte order the       *)
(* caller passes, d.e the directory's own.                                 *)
(***************************************************************************)
\* IfdThumbnail.extra_ifd_data (lines 664-671): the entries after the update
ExtraEntries(d, offset) ==
  IF d.cls # "IfdThumbnail" THEN d.entries
  ELSE [i \in 1..Len(d.entries) |->
          IF d.entries[i].tag = JPEGInterchangeFormat
          THEN Entry(d.entries[i].tag, d.entries[i].type, Ints(<<offset>>))
          ELSE d.entries[i]]

\* the directory as extra_ifd_data leaves it when encoded at offset
AfterExtra(d, offset) ==
  [d EXCEPT !.entries = ExtraEntries(d, offset + 2 + Len(d.entries) * 12 + 4)]

InRange(s, lo, hi) == \A i \in 1..Len(s) : lo <= s[i] /\ s[i] <= hi

\* lines 351-368: the packed bytes of a value that is not a directory
EncodeValue(e, type, val) ==
  CASE val.k = "none" -> Err("TypeError")
    [] val.k # "none" /\ type \in {BYTE, UNDEFINED} ->
         IF val.k \in {"str", "chars"} THEN [ok |-> TRUE, bytes |-> val.v]
         ELSE Err("TypeError")
    [] val.k # "none" /\ type = ASCII ->
         IF val.k = "str" THEN [ok |-> TRUE, bytes |-> val.v]
         ELSE Err("TypeError")
    [] val.k # "none" /\ type = SHORT ->
         IF val.k = "ints" /\ InRange(val.v, 0, 65535)
         THEN [ok |-> TRUE,
               bytes |-> Concat([i \in 1..Len(val.v) |-> PackH(e, val.v[i])])]
         ELSE Err("struct.error")
    [] val.k # "none" /\ type = LONG ->
         IF val.k = "ints" /\ InRange(val.v, 0, 2147483647)
         THEN [ok |-> TRUE,
               bytes |-> Concat([i \in 1..Len(val.v) |-> PackI(e, val.v[i])])]
         ELSE Err("struct.error")
    [] val.k # "none" /\ type = SLONG ->
         IF val.k = "ints"
         THEN [ok |-> TRUE,
               bytes |-> Concat([i \in 1..Len(val.v) |-> PackSI(e, val.v[i])])]
         ELSE Err("struct.error")
    [] val.k # "none" /\ type \in {RATIONAL, SRATIONAL} ->
         IF val.k = "rats"
         THEN [ok |-> TRUE,
               bytes |-> Concat([i \in 1..Len(val.v) |->
                                   PackBig(e, val.v[i].num) \o PackBig(e, val.v[i].den)])]
         ELSE IF val.v = <<>> THEN [ok |-> TRUE, bytes |-> <<>>]
         ELSE Err("AttributeError")

\* lines 377-380: tag, type and count of one entry, in the directory's order
EntryHead(d, tag, type, components) ==
  PackH(d.e, tag) \o PackH(d.e, type) \o PackI(d.e, components)

RECURSIVE getdata(_, _, _, _)
RECURSIVE EncodeEntries(_, _, _, _, _, _)

\* the loop of lines 328-376 from entry i on: data_offset, the out-of-line
\* bytes and the entry table built so far
EncodeEntries(d, e, i, data_offset, output_data, table) ==
  IF i > Len(d.entries)
  THEN [ok |-> TRUE, data_offset |-> data_offset, output_data |-> output_data,
        table |-> table]
  ELSE IF d.entries[i].val.k = "ifd"
    THEN Then(getdata(d.entries[i].val.v, e, data_offset, 1),
              LAMBDA sub :
                IF sub.next_offset # data_offset + Len(sub.data)
                THEN Err("AssertionError")
                ELSE EncodeEntries(d, e, i + 1, data_offset + Len(sub.data),
                       output_data \o sub.data,
                       table \o EntryHead(d, d.entries[i].tag, d.entries[i].type,
                                          IF d.entries[i].type # 4
                                          THEN Len(sub.data) ELSE 1)
                             \o PackI(e, data_offset)))
  ELSE Then(EncodeValue(e, d.entries[i].type, d.entries[i].val),
            LAMBDA v :
              IF exif_type_size(d.entries[i].type) * Len(d.entries[i].val.v) > 4
              THEN EncodeEntries(d, e, i + 1,
                     data_offset
                       + exif_type_size(d.entries[i].type) * Len(d.entries[i].val.v),
                     output_data \o v.bytes,
                     table \o EntryHead(d, d.entries[i].tag, d.entries[i].type,
                                        Len(d.entries[i].val.v))
                           \o PackI(e, data_offset))
              ELSE EncodeEntries(d, e, i + 1, data_offset, output_data,
                     table \o EntryHead(d, d.entries[i].tag, d.entries[i].type,
                                        Len(d.entries[i].val.v))
                           \o v.bytes \o Zeros(4 - Len(v.bytes))))

\* lines 376-392: the directory's bytes from what the loop has built
Assemble(d, e, offset, islast, r) ==
  With(PackH(e, Len(d.entries)) \o r.table
         \o PackI(d.e, IF islast = 1 THEN 0 ELSE r.data_offset)
         \o r.output_data,
       LAMBDA data :
         IF r.data_offset # offset + Len(data) THEN Err("AssertionError")
         ELSE [ok |-> TRUE, data |-> data, next_offset |-> r.data_offset])

\* IfdData.getdata (lines 317-392); d is the directory after extra_ifd_data
IfdData_getdata(d, e, offset, islast) ==
  Then(EncodeEntries(d, e, 1,
         offset + 2 + Len(d.entries) * 12 + 4
           + (IF d.cls = "IfdThumbnail" THEN Len(d.jpeg_data) ELSE 0),
         IF d.cls = "IfdThumbnail" THEN d.jpeg_data ELSE <<>>, <<>>),
       LAMBDA r : Assemble(d, e, offset, islast, r))

\* FujiIFD.getdata returning the inherited getdata's next offset as it is
FujiWrap_Relative(cls, offset, r) ==
  IF cls # "FujiIFD" THEN r
  ELSE [ok |-> TRUE, data |-> FujiSig \o PackI("<", 12) \o r.data,
        next_offset |-> r.next_offset]

\* FujiIFD.getdata (lines 456-460) around the inherited getdata's result
FujiWrap(cls, offset, r) ==
  IF cls # "FujiIFD" THEN r
  ELSE [ok |-> TRUE, data |-> FujiSig \o PackI("<", 12) \o r.data,
        next_offset |-> r.next_offset + offset]

\* the getdata of the directory's class: FujiIFD.getdata (lines 456-460)
\* or the inherited IfdData.getdata
getdata(d, e, offset, islast) ==
  Then(IfdData_getdata(AfterExtra(d, IF d.cls = "FujiIFD" THEN 12 ELSE offset),
                       e, IF d.cls = "FujiIFD" THEN 12 ELSE offset, islast),
       LAMBDA r : FujiWrap(d.cls, offset, r))

(***************************************************************************)
(* Segments: DefaultSegment, StartOfScanSegment, ExifSegment               *)
(***************************************************************************)
Segment(cls, marker, data, img_data, ifds, e, tiff_endian) ==
  [cls |-> cls, marker |-> marker, data |-> data, img_data |-> img_data,
   ifds |-> ifds, e |-> e, tiff_endian |-> tiff_endian]

\* DefaultSegment.__init__ (lines 71-80)
DefaultSegment(marker, data) ==
  Segment("DefaultSegment", marker, data, <<>>, <<>>, "<", <<73, 73>>)

\* ExifSegment(APP1, None, None) (lines 682-686)
EmptyExifSegment == Segment("ExifSegment", APP1, None, <<>>, <<>>, "<", <<73, 73>>)

\* line 736: the offset of the next directory, read after the one at offset
NextIfd(e, tiff_data, offset) ==
  UnpackI(e, Slice(tiff_data,
                   2 + offset + (NumEntries(e, offset, tiff_data) * 12),
                   2 + offset + (NumEntries(e, offset, tiff_data) * 12) + 4))

\* the while loop of ExifSegment.parse_data (lines 724-737)
RECURSIVE ParseIfds(_, _, _, _, _, _)
ParseIfds(e, tiff_data, offset, count, ifds, make) ==
  IF offset = 0 THEN [ok |-> TRUE, ifds |-> ifds]
  ELSE IF Len(Slice(tiff_data, offset, offset + 2)) # 2 THEN Err("struct.error")
  ELSE IF count + 1 > 2 THEN Err("InvalidFile")
  ELSE Then(DecodeIfd(IF count + 1 = 1 THEN "IfdTIFF" ELSE "IfdThumbnail",
                      e, offset, tiff_data, make),
            LAMBDA r : ParseIfds(e, tiff_data, NextIfd(e, tiff_data, offset),
                                 count + 1, Append(ifds, r.ifd), r.make))

\* lines 703-737 of parse_data, the TIFF header's byte order known
ParseTiff(marker, data, tiff_data, e) ==
  IF Len(Slice(tiff_data, 2, 8)) # 6 THEN Err("struct.error")
  ELSE IF UnpackH(e, Slice(tiff_data, 2, 4)) # TIFF_TAG THEN Err("InvalidFile")
  ELSE Then(ParseIfds(e, tiff_data, UnpackI(e, Slice(tiff_data, 4, 8)),
                      0, <<>>, Unset),
            LAMBDA r : [ok |-> TRUE,
                        seg |-> Segment("ExifSegment", marker, PyStr(data), <<>>,
                                        r.ifds, e, Slice(tiff_data, 0, 2))])

\* ExifSegment.__init__ with data: parse_data (lines 688-737)
ExifSegment_parse(marker, data) ==
  IF Len(data) < 6 THEN Err("struct.error")
  ELSE IF Strip(Slice(data, 0, 6)) # ExifSig THEN Err("InvalidSegment")
  ELSE IF Slice(data, TIFF_OFFSET, TIFF_OFFSET + 2) \notin {<<73, 73>>, <<77, 77>>}
    THEN Err("InvalidFile")
  ELSE ParseTiff(marker, data, SliceFrom(data, TIFF_OFFSET),
                 IF Slice(data, TIFF_OFFSET, TIFF_OFFSET + 2) = <<73, 73>>
                 THEN "<" ELSE ">")

\* the ifds with directory i as extra_ifd_data leaves it
ExtraAt(ifds, i, next_offset) ==
  [ifds EXCEPT ![i] = AfterExtra(ifds[i], next_offset)]

\* the loop of ExifSegment.get_data (lines 746-750): the encoded directories
\* and the directories as the calls of extra_ifd_data leave them
RECURSIVE EncodeIfds(_, _, _, _, _)
EncodeIfds(e, ifds, i, next_offset, acc) ==
  IF i > Len(ifds) THEN [ok |-> TRUE, data |-> acc, ifds |-> ifds]
  ELSE With(getdata(ifds[i], e, next_offset, IF i = Len(ifds) THEN 1 ELSE 0),
            LAMBDA r :
              IF ~r.ok
              THEN [ok |-> FALSE, err |-> r.err,
                    ifds |-> ExtraAt(ifds, i, next_offset)]
              ELSE EncodeIfds(e, ExtraAt(ifds, i, next_offset), i + 1,
                              r.next_offset, acc \o r.data))

\* lines 752-758: the payload around the encoded directories
ExifPayload(seg, r) ==
  IF ~r.ok
  THEN [ok |-> FALSE, err |-> r.err, seg |-> [seg EXCEPT !.ifds = r.ifds]]
  ELSE [ok |-> TRUE,
        data |-> ExifSig \o <<0, 0>> \o seg.tiff_endian
                 \o PackH(seg.e, 42) \o PackI(seg.e, 8) \o r.data,
        seg |-> [seg EXCEPT !.ifds = r.ifds]]

\* the get_data of the segment's class (lines 98-101, 743-758), with the
\* segment as the call leaves it
get_data(seg) ==
  IF seg.cls # "ExifSegment"
  THEN IF seg.data.k = "none" THEN [ok |-> FALSE, err |-> "TypeError", seg |-> seg]
       ELSE [ok |-> TRUE, data |-> seg.data.v, seg |-> seg]
  ELSE ExifPayload(seg, EncodeIfds(seg.e, seg.ifds, 1, 8, <<>>))

\* lines 91-96 and 130-132: marker, length and payload, then the scan data
Framed(seg, r) ==
  IF ~r.ok THEN r
  ELSE IF Len(r.data) + 2 > 65535
    THEN [ok |-> FALSE, err |-> "struct.error", seg |-> r.seg]
  ELSE [ok |-> TRUE,
        bytes |-> <<255, seg.marker>> \o PackH(">", Len(r.data) + 2) \o r.data
                  \o (IF seg.cls = "StartOfScanSegment" THEN seg.img_data
                      ELSE <<>>),
        seg |-> r.seg]

\* DefaultSegment.write and StartOfScanSegment.write (lines 87-96, 130-132)
Segment_write(seg) == Framed(seg, get_data(seg))

(***************************************************************************)
(* JpegFile: the framer                                                    *)
(***************************************************************************)
\* the keys of jpeg_markers (lines 775-802)
JpegMarkers == {192, 194, 196, 218, 219, 221, 254} \cup (224..239)

\* input.read(size - 2) with the stream at pos + 4 (line 865)
ReadPayload(b, pos) ==
  IF UnpackH(">", Slice(b, pos + 2, pos + 4)) - 2 < 0 THEN SliceFrom(b, pos + 4)
  ELSE Slice(b, pos + 4, pos + 4 + UnpackH(">", Slice(b, pos + 2, pos + 4)) - 2)

\* StartOfScanSegment.__init__ (lines 121-128) with the stream at after
ScanSegment(mark, data, b, after) ==
  Segment("StartOfScanSegment", mark, PyStr(data),
          SubSeq(SliceFrom(b, after), 1, Len(SliceFrom(b, after)) - 2),
          <<>>, "<", <<73, 73>>)

\* the loop over possible catching every exception, not only InvalidSegment
Attempt_CatchAll(mark, data, b, after, x) ==
  CASE mark = SOS -> [ok |-> TRUE, seg |-> ScanSegment(mark, data, b, after),
                      pos |-> Max(0, Len(b) - 2)]
    [] mark = APP1 /\ x.ok -> [ok |-> TRUE, seg |-> x.seg, pos |-> after]
    [] OTHER -> [ok |-> TRUE, seg |-> DefaultSegment(mark, PyStr(data)),
                 pos |-> after]

\* lines 866-875: the classes of jpeg_markers[mark] tried in turn, then
\* DefaultSegment; x is what ExifSegment made of an APP1 payload
Attempt(mark, data, b, after, x) ==
  CASE mark = SOS -> [ok |-> TRUE, seg |-> ScanSegment(mark, data, b, after),
                      pos |-> Max(0, Len(b) - 2)]
    [] mark = APP1 /\ x.ok -> [ok |-> TRUE, seg |-> x.seg, pos |-> after]
    [] mark = APP1 /\ ~x.ok /\ x.err # "InvalidSegment" -> x
    [] OTHER -> [ok |-> TRUE, seg |-> DefaultSegment(mark, PyStr(data)),
                 pos |-> after]

\* lines 863-875: the segment with marker mark read at pos
ReadSegment(b, pos, mark, data) ==
  IF mark \notin JpegMarkers THEN Err("KeyError")
  ELSE Attempt(mark, data, b, pos + 4 + Len(data),
               IF mark = APP1 THEN ExifSegment_parse(mark, data)
               ELSE Err("InvalidSegment"))

\* the loop of JpegFile.__init__ (lines 854-875) with the stream at pos
RECURSIVE ReadSegments(_, _, _)
ReadSegments(b, pos, segments) ==
  IF Len(Slice(b, pos, pos + 2)) # 2 THEN Err("struct.error")
  ELSE IF b[pos + 1] # 255 THEN Err("InvalidFile")
  ELSE IF b[pos + 2] = EOI THEN [ok |-> TRUE, segments |-> segments]
  ELSE IF Len(Slice(b, pos + 2, pos + 4)) # 2 THEN Err("struct.error")
  ELSE Then(ReadSegment(b, pos, b[pos + 2], ReadPayload(b, pos)),
            LAMBDA r : ReadSegments(b, r.pos, Append(segments, r.seg)))

\* JpegFile.fromString (lines 819-821, 837-877)
fromString(b) ==
  IF Slice(b, 0, 2) # SOI_MARKER THEN Err("InvalidFile")
  ELSE ReadSegments(b, 2, <<>>)

\* the segments with segment i as its write leaves it
WrittenAt(segments, i, r) == [segments EXCEPT ![i] = r.seg]

\* the loop of JpegFile.writeFd (lines 893-894)
RECURSIVE WriteSegments(_, _, _)
WriteSegments(segments, i, acc) ==
  IF i > Len(segments) THEN [ok |-> TRUE, bytes |-> acc, segments |-> segments]
  ELSE With(Segment_write(segments[i]),
            LAMBDA r :
              IF ~r.ok
              THEN [ok |-> FALSE, err |-> r.err,
                    segments |-> WrittenAt(segments, i, r)]
              ELSE WriteSegments(WrittenAt(segments, i, r), i + 1,
                                 acc \o r.bytes))

\* line 895 after the loop
Closed(r) ==
  IF ~r.ok THEN r
  ELSE [ok |-> TRUE, bytes |-> r.bytes \o EOI_MARKER, segments |-> r.segments]

\* JpegFile.writeString (lines 879-895)
writeString(segments) == Closed(WriteSegments(segments, 1, SOI_MARKER))

(***************************************************************************)
(* Directory operations                                                    *)
(***************************************************************************)
\* the index of the first entry with this tag, 0 if there is none
RECURSIVE IndexFrom(_, _, _)
IndexFrom(entries, tag, i) ==
  IF i > Len(entries) THEN 0
  ELSE IF entries[i].tag = tag THEN i
  ELSE IndexFrom(entries, tag, i + 1)

IndexOf(entries, tag) == IndexFrom(entries, tag, 1)

RemoveAt(s, i) == SubSeq(s, 1, i - 1) \o SubSeq(s, i + 1, Len(s))

\* lines 214-217: what __getitem__ returns for the entry found
Returned(x) ==
  IF x.type = ASCII /\ x.val.k # "none"
  THEN IF x.val.k = "str" THEN [ok |-> TRUE, val |-> PyStr(Strip(x.val.v))]
       ELSE Err("AttributeError")
  ELSE [ok |-> TRUE, val |-> x.val]

\* IfdData.__getitem__ (lines 211-218)
getitem(d, key) ==
  IF IndexOf(d.entries, key) = 0 THEN [ok |-> TRUE, val |-> None]
  ELSE Returned(d.entries[IndexOf(d.entries, key)])

\* IfdData.has_key (lines 208-209)
has_key(d, key) ==
  Then(getitem(d, key), LAMBDA r : [ok |-> TRUE, val |-> r.val.k # "none"])

\* the value __setitem__ stores: lines 224-226
Terminated(type, value) ==
  IF type = ASCII /\ value.k = "str"
     /\ (value.v = <<>> \/ value.v[Len(value.v)] # 0)
  THEN PyStr(value.v \o <<0>>)
  ELSE value

\* the store giving an entry found the type of the tag dictionary
Stored_Retyped(entries, i, key, type, v) ==
  IF i = 0 THEN Append(entries, Entry(key, type, v))
  ELSE IF v.k = "none" THEN RemoveAt(entries, i)
  ELSE [entries EXCEPT ![i] = Entry(key, type, v)]

\* lines 228-241: the entries with v stored under key, i the index of the
\* first entry with that tag
Stored(entries, i, key, type, v) ==
  IF i = 0 THEN Append(entries, Entry(key, type, v))
  ELSE IF v.k = "none" THEN RemoveAt(entries, i)
  ELSE [entries EXCEPT ![i].val = v]

\* IfdData.__setitem__ (lines 220-241): the directory after d[key] = value
setitem(d, key, value) ==
  IF key \notin DOMAIN TypedTags(d.cls) \cup UntypedTags(d.cls) THEN Err("KeyError")
  ELSE IF key \in UntypedTags(d.cls) THEN Err("TagsNotSetUp")
  ELSE IF TypedTags(d.cls)[key] = ASCII /\ value.k \notin {"none", "str"}
    THEN Err("AttributeError")
  ELSE [ok |-> TRUE,
        ifd |-> [d EXCEPT !.entries =
                   Stored(d.entries, IndexOf(d.entries, key), key,
                          TypedTags(d.cls)[key],
                          Terminated(TypedTags(d.cls)[key], value))]]

\* lines 637-639: the new GPS directory
NewGpsIfd(e) ==
  setitem(Ifd("IfdGPS", e, <<>>, <<>>), GPSVersionID, Chars(<<2, 2, 0, 0>>)).ifd

\* new_gps without the has_key test: the GPS directory is replaced
new_gps_Replacing(d) ==
  [ok |-> TRUE,
   ifd |-> setitem(d, GPSIFD, IfdVal(NewGpsIfd(d.e))).ifd,
   gps |-> NewGpsIfd(d.e)]

\* IfdTIFF.new_gps (lines 634-640)
new_gps(d) ==
  IF d.cls \notin {"IfdTIFF", "IfdThumbnail"} THEN Err("AttributeError")
  ELSE Then(has_key(d, GPSIFD),
            LAMBDA h :
              IF h.val THEN Err("ValueError")
              ELSE [ok |-> TRUE,
                    ifd |-> setitem(d, GPSIFD, IfdVal(NewGpsIfd(d.e))).ifd,
                    gps |-> NewGpsIfd(d.e)])

(***************************************************************************)
(* ExifSegment.get_primary, JpegFile.get_exif and add_exif                 *)
(***************************************************************************)
RECURSIVE FirstApp1(_, _)
FirstApp1(segments, i) ==
  IF i > Len(segments) THEN 0
  ELSE IF segments[i].marker = APP1 THEN i
  ELSE FirstApp1(segments, i + 1)

\* add_exif appending the new segment instead of inserting it at the front
add_exif_AtEnd(segments) == Append(segments, EmptyExifSegment)

\* JpegFile.add_exif (lines 917-924)
add_exif(segments) == <<EmptyExifSegment>> \o segments

\* JpegFile.get_exif (lines 904-915): the segment list after the call and the
\* index in it of the segment returned, 0 for None
get_exif(segments, create) ==
  IF FirstApp1(segments, 1) # 0
  THEN [segments |-> segments, seg |-> FirstApp1(segments, 1)]
  ELSE IF create THEN [segments |-> add_exif(segments), seg |-> 1]
  ELSE [segments |-> segments, seg |-> 0]

\* ExifSegment.get_primary (lines 760-772): the segment after the call and
\* whether a directory is returned
get_primary(seg, create) ==
  IF seg.cls # "ExifSegment" THEN Err("AttributeError")
  ELSE IF Len(seg.ifds) > 0 THEN [ok |-> TRUE, seg |-> seg, some |-> TRUE]
  ELSE IF create
    THEN [ok |-> TRUE, some |-> TRUE,
          seg |-> [seg EXCEPT !.ifds = <<Ifd("IfdTIFF", seg.e, <<>>, <<>>)>>]]
  ELSE [ok |-> TRUE, seg |-> seg, some |-> FALSE]

(***************************************************************************)
(* JpegFile.get_geo and set_geo.  A float latitude is modelled in fixed    *)
(* point: the argument of set_geo in units of 1/Micro degree, the result   *)
(* of get_geo in units of 1/GeoUnit degree, each of its three terms        *)
(* rounded down.  fuzz = 1 is the outcome where the float product          *)
(* secs * SEC_DEN falls just below the exact value and long() truncates it *)
(* to one less.                                                            *)
(***************************************************************************)
Micro == 1000000
GeoUnit == 10000000

Abs(n) == IF n < 0 THEN 0 - n ELSE n

BigDec(b) ==
  IF b.lo > 0 THEN [hi |-> b.hi, lo |-> b.lo - 1]
  ELSE [hi |-> b.hi - 1, lo |-> 65535]

\* the Big of 2 * half
BigTwice(half) == [hi |-> half \div 32768, lo |-> (half % 32768) * 2]

RECURSIVE GCD(_, _)
GCD(a, b) == IF b = 0 THEN a ELSE GCD(b, a % b)

\* JpegFile._parse (lines 952-963)
parse(val, fuzz) ==
  LET m == Abs(val)
      deg == m \div Micro
      other == (m % Micro) * 60
      minutes == other \div Micro
      rem == other % Micro
      secs == BigTwice(rem * 30 * (SEC_DEN \div Micro))
      sign == IF val < 0 THEN 0 - 1 ELSE 1
  IN IF fuzz = 0 \/ other = 0
     THEN [sign |-> sign, deg |-> deg, minutes |-> minutes, secs |-> secs]
     ELSE IF rem > 0
     THEN [sign |-> sign, deg |-> deg, minutes |-> minutes, secs |-> BigDec(secs)]
     ELSE [sign |-> sign, deg |-> deg, minutes |-> minutes - 1,
           secs |-> BigDec(BigTwice(30 * SEC_DEN))]

\* floor(num * a / (den * b)) for a Rational's num and den
MulDiv(num, den, a, b) ==
  LET d == den.hi * 65536 + den.lo
      g == GCD(a, d)
      a1 == a \div g
      dd == (d \div g) * b
  IN IF a1 = 1
     THEN (num.hi \div dd) * 65536 + ((num.hi % dd) * 65536 + num.lo) \div dd
     ELSE ((num.hi * 65536 + num.lo) * a1) \div dd

\* lines 936-938 and 942-944: degrees, minutes, seconds to 1/GeoUnit degree
Degrees(dms) ==
  MulDiv(dms[1].num, dms[1].den, GeoUnit, 1)
  + MulDiv(dms[2].num, dms[2].den, GeoUnit \div 20, 3)
  + MulDiv(dms[3].num, dms[3].den, GeoUnit \div 400, 9)

ZeroDen(dms) == \E i \in 1..3 : dms[i].den = Big(0)

\* lines 935-938: the degrees of the value v that gps[tag] returned
Unpacked(v) ==
  IF v.val.k \in {"none", "ifd"} THEN Err("TypeError")
  ELSE IF Len(v.val.v) # 3 THEN Err("ValueError")
  ELSE IF v.val.k # "rats" THEN Err("AttributeError")
  ELSE IF ZeroDen(v.val.v) THEN Err("ZeroDivisionError")
  ELSE [ok |-> TRUE, val |-> Degrees(v.val.v)]

\* lines 939-940: the sign from what gps[ref] returned
Signed(deg, r, neg) ==
  IF r.val = PyStr(<<neg>>) THEN [ok |-> TRUE, val |-> 0 - deg]
  ELSE [ok |-> TRUE, val |-> deg]

\* one coordinate of get_geo: gps[tag] with the sign of gps[ref]
Coordinate(gps, tag, ref, neg) ==
  Then(getitem(gps, tag),
       LAMBDA v : Then(Unpacked(v),
                       LAMBDA u : Then(getitem(gps, ref),
                                       LAMBDA r : Signed(u.val, r, neg))))

\* lines 935-948, gps being the GPS directory
GeoOf(gps) ==
  Then(Coordinate(gps, GPSLatitude, GPSLatitudeRef, 83),
       LAMBDA lat : Then(Coordinate(gps, GPSLongitude, GPSLongitudeRef, 87),
                         LAMBDA lng : [ok |-> TRUE, lat |-> lat.val,
                                       lng |-> lng.val]))

\* lines 929-934, the segment get_exif returns being an ExifSegment
GpsOf(seg) ==
  IF Len(seg.ifds) = 0 THEN Err("NoSection")
  ELSE Then(getitem(seg.ifds[1], GPSIFD),
            LAMBDA g : IF g.val.k = "none" THEN Err("NoSection")
                       ELSE IF g.val.k # "ifd" THEN Err("TypeError")
                       ELSE GeoOf(g.val.v))

\* JpegFile.get_geo (lines 927-948)
get_geo(segments) ==
  IF FirstApp1(segments, 1) = 0 THEN Err("NoSection")
  ELSE IF segments[FirstApp1(segments, 1)].cls # "ExifSegment"
    THEN Err("AttributeError")
  ELSE GpsOf(segments[FirstApp1(segments, 1)])

\* the Rational list set_geo stores for a parsed coordinate
Dms(p) ==
  Rats(<<Rational(Big(p.deg), Big(1)), Rational(Big(p.minutes), Big(1)),
         Rational(p.secs, Big(SEC_DEN))>>)

\* lines 974-981 and 983-989: the two entries of one coordinate
SetCoordinate(gps, p, reftag, tag, pos, neg) ==
  setitem(setitem(gps, reftag, PyStr(<<IF p.sign < 0 THEN neg ELSE pos>>)).ifd,
          tag, Dms(p)).ifd

\* lines 974-989: the GPS directory with both coordinates set
SetBoth(gps, lat, lng, fuzz) ==
  SetCoordinate(SetCoordinate(gps, parse(lat, fuzz), GPSLatitudeRef,
                              GPSLatitude, 78, 83),
                parse(lng, fuzz), GPSLongitudeRef, GPSLongitude, 69, 87)

\* lines 970-989: attr the primary directory, g what attr[GPSIFD] returned
GeoInto(attr, g, lat, lng, fuzz) ==
  IF g.val.k = "none"
  THEN [ok |-> TRUE,
        ifd |-> setitem(attr, GPSIFD,
                        IfdVal(SetBoth(NewGpsIfd(attr.e), lat, lng, fuzz))).ifd]
  ELSE IF g.val.k # "ifd" THEN Err("TypeError")
  ELSE [ok |-> TRUE,
        ifd |-> [attr EXCEPT !.entries[IndexOf(attr.entries, GPSIFD)].val =
                   IfdVal(SetBoth(g.val.v, lat, lng, fuzz))]]

\* lines 970-989 on seg, the segment after get_primary(create=True)
GeoSegment(seg, lat, lng, fuzz) ==
  Then(getitem(seg.ifds[1], GPSIFD),
       LAMBDA g : Then(GeoInto(seg.ifds[1], g, lat, lng, fuzz),
                       LAMBDA r : [ok |-> TRUE,
                                   seg |-> [seg EXCEPT !.ifds[1] = r.ifd]]))

\* the segment list with segment x.seg as set_geo leaves it
GeoPrimary(x, seg, r) ==
  IF r.ok THEN [ok |-> TRUE, segments |-> [x.segments EXCEPT ![x.seg] = r.seg]]
  ELSE [ok |-> FALSE, err |-> r.err,
        segments |-> [x.segments EXCEPT ![x.seg] = seg]]

\* lines 969-989 given x, what get_exif(create=True) made of the segments
GeoAt(x, seg, lat, lng, fuzz) ==
  IF ~seg.ok THEN [ok |-> FALSE, err |-> seg.err, segments |-> x.segments]
  ELSE GeoPrimary(x, seg.seg, GeoSegment(seg.seg, lat, lng, fuzz))

\* the segment list after get_exif(create=True).get_primary(create=True)...
GeoExif(x, lat, lng, fuzz) ==
  GeoAt(x, get_primary(x.segments[x.seg], TRUE), lat, lng, fuzz)

\* JpegFile.set_geo (lines 967-989): the segment list after the call
set_geo(segments, lat, lng, fuzz) ==
  GeoExif(get_exif(segments, TRUE), lat, lng, fuzz)

(***************************************************************************)
(* Input streams.  Each is a byte stream a caller can hand to fromString.  *)
(***************************************************************************)
\* SOI EOI
InBare ==
  <<255, 216, 255, 217>>

\* APP0 "JF", SOS with one payload byte and two bytes of image data
InNoExif ==
  <<255, 216, 255, 224, 0, 4, 74, 70, 255, 218, 0, 3, 1, 17, 34, 255, 217>>

\* an APP1 segment that is not Exif ("http:/"), then APP0
InOpaqueApp1 ==
  <<255, 216, 255, 225, 0, 8, 104, 116, 116, 112, 58, 47, 255, 224, 0, 4,
    74, 70, 255, 217>>

\* Exif, "II", first directory offset 0: no directory
InExifNoIfd ==
  <<255, 216, 255, 225, 0, 16, 69, 120, 105, 102, 0, 0, 73, 73, 42, 0, 0,
    0, 0, 0, 255, 217>>

\* APP0, Exif "II" with Primary [Make = "Canon", Orientation = 1], SOS
InExifII ==
  <<255, 216, 255, 224, 0, 4, 74, 70, 255, 225, 0, 52, 69, 120, 105, 102,
    0, 0, 73, 73, 42, 0, 8, 0, 0, 0, 2, 0, 15, 1, 2, 0, 6, 0, 0, 0, 38, 0,
    0, 0, 18, 1, 3, 0, 1, 0, 0, 0, 1, 0, 0, 0, 0, 0, 0, 0, 67, 97, 110,
    111, 110, 0, 255, 218, 0, 3, 1, 17, 34, 255, 217>>

\* Exif "II": Primary [Make = "Canon", ExifOffset -> [MakerNote -> Canon [6 = 5]]]
InCanonII ==
  <<255, 216, 255, 225, 0, 88, 69, 120, 105, 102, 0, 0, 73, 73, 42, 0, 8,
    0, 0, 0, 2, 0, 15, 1, 2, 0, 6, 0, 0, 0, 38, 0, 0, 0, 105, 135, 4, 0, 1,
    0, 0, 0, 44, 0, 0, 0, 0, 0, 0, 0, 67, 97, 110, 111, 110, 0, 1, 0, 124,
    146, 7, 0, 18, 0, 0, 0, 62, 0, 0, 0, 0, 0, 0, 0, 1, 0, 6, 0, 3, 0, 1,
    0, 0, 0, 5, 0, 0, 0, 0, 0, 0, 0, 255, 217>>

\* the same as InExifII in "MM" byte order
InExifMM ==
  <<255, 216, 255, 224, 0, 4, 74, 70, 255, 225, 0, 52, 69, 120, 105, 102,
    0, 0, 77, 77, 0, 42, 0, 0, 0, 8, 0, 2, 1, 15, 0, 2, 0, 0, 0, 6, 0, 0,
    0, 38, 1, 18, 0, 3, 0, 0, 0, 1, 0, 1, 0, 0, 0, 0, 0, 0, 67, 97, 110,
    111, 110, 0, 255, 218, 0, 3, 1, 17, 34, 255, 217>>

\* the same in "MM" byte order, the Canon directory little-endian
InCanonMM ==
  <<255, 216, 255, 225, 0, 88, 69, 120, 105, 102, 0, 0, 77, 77, 0, 42, 0,
    0, 0, 8, 0, 2, 1, 15, 0, 2, 0, 0, 0, 6, 0, 0, 0, 38, 135, 105, 0, 4, 0,
    0, 0, 1, 0, 0, 0, 44, 0, 0, 0, 0, 67, 97, 110, 111, 110, 0, 0, 1, 146,
    124, 0, 7, 0, 0, 0, 18, 0, 0, 0, 62, 0, 0, 0, 0, 1, 0, 6, 0, 3, 0, 1,
    0, 0, 0, 5, 0, 0, 0, 0, 0, 0, 0, 255, 217>>

\* Exif "II": Primary [Orientation = 1], Thumbnail [0x201, 0x202 = 3] + 3 bytes
InThumb ==
  <<255, 216, 255, 225, 0, 67, 69, 120, 105, 102, 0, 0, 73, 73, 42, 0, 8,
    0, 0, 0, 1, 0, 18, 1, 3, 0, 1, 0, 0, 0, 1, 0, 0, 0, 26, 0, 0, 0, 2, 0,
    1, 2, 4, 0, 1, 0, 0, 0, 56, 0, 0, 0, 2, 2, 4, 0, 1, 0, 0, 0, 3, 0, 0,
    0, 0, 0, 0, 0, 170, 187, 204, 255, 217>>

\* Exif "II": Primary [GPS -> [version, N, 10 30 0, E, 20 15 0]]
InGps ==
  <<255, 216, 255, 225, 0, 148, 69, 120, 105, 102, 0, 0, 73, 73, 42, 0, 8,
    0, 0, 0, 1, 0, 37, 136, 4, 0, 1, 0, 0, 0, 26, 0, 0, 0, 0, 0, 0, 0, 5,
    0, 0, 0, 1, 0, 4, 0, 0, 0, 2, 2, 0, 0, 1, 0, 2, 0, 2, 0, 0, 0, 78, 0,
    0, 0, 2, 0, 5, 0, 3, 0, 0, 0, 92, 0, 0, 0, 3, 0, 2, 0, 2, 0, 0, 0, 69,
    0, 0, 0, 4, 0, 5, 0, 3, 0, 0, 0, 116, 0, 0, 0, 0, 0, 0, 0, 10, 0, 0, 0,
    1, 0, 0, 0, 30, 0, 0, 0, 1, 0, 0, 0, 0, 0, 0, 0, 1, 0, 0, 0, 20, 0, 0,
    0, 1, 0, 0, 0, 15, 0, 0, 0, 1, 0, 0, 0, 0, 0, 0, 0, 1, 0, 0, 0, 255, 217>>

\* Exif "II": Primary with two Orientation entries (values 1 and 2)
InDup ==
  <<255, 216, 255, 225, 0, 46, 69, 120, 105, 102, 0, 0, 73, 73, 42, 0, 8,
    0, 0, 0, 2, 0, 18, 1, 3, 0, 1, 0, 0, 0, 1, 0, 0, 0, 18, 1, 3, 0, 1, 0,
    0, 0, 2, 0, 0, 0, 0, 0, 0, 0, 255, 217>>

\* Exif "II": Primary [Orientation = 1] at offset 10, two unused bytes before it
InGap ==
  <<255, 216, 255, 225, 0, 36, 69, 120, 105, 102, 0, 0, 73, 73, 42, 0, 10,
    0, 0, 0, 0, 0, 1, 0, 18, 1, 3, 0, 1, 0, 0, 0, 1, 0, 0, 0, 0, 0, 0, 0,
    255, 217>>

\* Exif "II": Primary [Orientation as ASCII "1", GPS -> [GPSLatitudeRef as
\* UNDEFINED "N\0"]]: entry types other than the dictionaries declare
InMistyped ==
  <<255, 216, 255, 225, 0, 64, 69, 120, 105, 102, 0, 0, 73, 73, 42, 0, 8,
    0, 0, 0, 2, 0, 18, 1, 2, 0, 2, 0, 0, 0, 49, 0, 0, 0, 37, 136, 4, 0, 1,
    0, 0, 0, 38, 0, 0, 0, 0, 0, 0, 0, 1, 0, 1, 0, 7, 0, 2, 0, 0, 0, 78, 0,
    0, 0, 0, 0, 0, 0, 255, 217>>

\* a segment with marker 0xC1 (SOF1), which jpeg_markers does not list
InUnknownMarker ==
  <<255, 216, 255, 193, 0, 3, 120, 255, 217>>

\* SOI, an APP0 segment, then 0x00 where the delimiter 0xFF is expected
InBadDelim ==
  <<255, 216, 255, 224, 0, 4, 74, 70, 0, 217>>

\* the first seven bytes of InNoExif: the stream ends inside the APP0 payload
InTruncated ==
  <<255, 216, 255, 224, 0, 4, 74>>

\* InExifII with the endian marker "II" changed to "0I"
InBadEndian ==
  <<255, 216, 255, 224, 0, 4, 74, 70, 255, 225, 0, 52, 69, 120, 105, 102,
    0, 0, 48, 73, 42, 0, 8, 0, 0, 0, 2, 0, 15, 1, 2, 0, 6, 0, 0, 0, 38, 0,
    0, 0, 18, 1, 3, 0, 1, 0, 0, 0, 1, 0, 0, 0, 0, 0, 0, 0, 67, 97, 110,
    111, 110, 0, 255, 218, 0, 3, 1, 17, 34, 255, 217>>

\* InExifII with the TIFF tag 0x2A changed to 0x30
InBadTiffTag ==
  <<255, 216, 255, 224, 0, 4, 74, 70, 255, 225, 0, 52, 69, 120, 105, 102,
    0, 0, 73, 73, 48, 0, 8, 0, 0, 0, 2, 0, 15, 1, 2, 0, 6, 0, 0, 0, 38, 0,
    0, 0, 18, 1, 3, 0, 1, 0, 0, 0, 1, 0, 0, 0, 0, 0, 0, 0, 67, 97, 110,
    111, 110, 0, 255, 218, 0, 3, 1, 17, 34, 255, 217>>

\* InThumb with a third directory chained after the Thumbnail directory
InThirdIfd ==
  <<255, 216, 255, 225, 0, 85, 69, 120, 105, 102, 0, 0, 73, 73, 42, 0, 8,
    0, 0, 0, 1, 0, 18, 1, 3, 0, 1, 0, 0, 0, 1, 0, 0, 0, 26, 0, 0, 0, 2, 0,
    1, 2, 4, 0, 1, 0, 0, 0, 56, 0, 0, 0, 2, 2, 4, 0, 1, 0, 0, 0, 3, 0, 0,
    0, 59, 0, 0, 0, 170, 187, 204, 1, 0, 18, 1, 3, 0, 1, 0, 0, 0, 1, 0, 0,
    0, 0, 0, 0, 0, 255, 217>>

\* an APP1 segment with the two-byte payload "ab", then an APP0 segment
InShortApp1 ==
  <<255, 216, 255, 225, 0, 4, 97, 98, 255, 224, 0, 4, 74, 70, 255, 217>>

\* an APP1 segment whose payload starts "\0Exif\0" and goes on with a
\* TIFF header without a directory
InShiftedSig ==
  <<255, 216, 255, 225, 0, 16, 0, 69, 120, 105, 102, 0, 73, 73, 42, 0, 0,
    0, 0, 0, 255, 217>>

\* Primary [Make = "Canon", five bytes without a terminating NUL]
InAsciiNoNul ==
  <<255, 216, 255, 225, 0, 39, 69, 120, 105, 102, 0, 0, 73, 73, 42, 0, 8,
    0, 0, 0, 1, 0, 15, 1, 2, 0, 5, 0, 0, 0, 26, 0, 0, 0, 0, 0, 0, 0, 67,
    97, 110, 111, 110, 255, 217>>

\* Primary [Make = "", an ASCII entry with count 0]
InAsciiEmpty ==
  <<255, 216, 255, 225, 0, 34, 69, 120, 105, 102, 0, 0, 73, 73, 42, 0, 8,
    0, 0, 0, 1, 0, 15, 1, 2, 0, 0, 0, 0, 0, 0, 0, 0, 0, 0, 0, 0, 0, 255, 217>>

\* Primary [EXIF pointer -> [MakerNote -> Canon directory]], no Make entry
InMakerFirst ==
  <<255, 216, 255, 225, 0, 70, 69, 120, 105, 102, 0, 0, 73, 73, 42, 0, 8,
    0, 0, 0, 1, 0, 105, 135, 4, 0, 1, 0, 0, 0, 26, 0, 0, 0, 0, 0, 0, 0, 1,
    0, 124, 146, 7, 0, 18, 0, 0, 0, 44, 0, 0, 0, 0, 0, 0, 0, 1, 0, 6, 0, 3,
    0, 1, 0, 0, 0, 5, 0, 0, 0, 0, 0, 0, 0, 255, 224, 0, 4, 74, 70, 255, 217>>

\* Primary [EXIF pointer -> [MakerNote -> Canon directory], Make = "Canon"]:
\* the EXIF pointer entry comes before the Make entry in the entry table
InMakeAfter ==
  <<255, 216, 255, 225, 0, 88, 69, 120, 105, 102, 0, 0, 73, 73, 42, 0, 8,
    0, 0, 0, 2, 0, 105, 135, 4, 0, 1, 0, 0, 0, 38, 0, 0, 0, 15, 1, 2, 0, 6,
    0, 0, 0, 74, 0, 0, 0, 0, 0, 0, 0, 1, 0, 124, 146, 7, 0, 18, 0, 0, 0,
    56, 0, 0, 0, 0, 0, 0, 0, 1, 0, 6, 0, 3, 0, 1, 0, 0, 0, 5, 0, 0, 0, 0,
    0, 0, 0, 67, 97, 110, 111, 110, 0, 255, 224, 0, 4, 74, 70, 255, 217>>

\* Primary [Make = "Nikon", EXIF pointer -> [MakerNote -> a directory]]
InUnknownMake ==
  <<255, 216, 255, 225, 0, 88, 69, 120, 105, 102, 0, 0, 73, 73, 42, 0, 8,
    0, 0, 0, 2, 0, 15, 1, 2, 0, 6, 0, 0, 0, 38, 0, 0, 0, 105, 135, 4, 0, 1,
    0, 0, 0, 44, 0, 0, 0, 0, 0, 0, 0, 78, 105, 107, 111, 110, 0, 1, 0, 124,
    146, 7, 0, 18, 0, 0, 0, 62, 0, 0, 0, 0, 0, 0, 0, 1, 0, 6, 0, 3, 0, 1,
    0, 0, 0, 5, 0, 0, 0, 0, 0, 0, 0, 255, 224, 0, 4, 74, 70, 255, 217>>

\* InThumb without the JPEG-offset entry (0x201) in the Thumbnail directory
InThumbNoOffset ==
  <<255, 216, 255, 225, 0, 55, 69, 120, 105, 102, 0, 0, 73, 73, 42, 0, 8,
    0, 0, 0, 1, 0, 18, 1, 3, 0, 1, 0, 0, 0, 1, 0, 0, 0, 26, 0, 0, 0, 1, 0,
    2, 2, 4, 0, 1, 0, 0, 0, 3, 0, 0, 0, 0, 0, 0, 0, 170, 187, 204, 255, 217>>

\* InThumb without the JPEG-length entry (0x202) in the Thumbnail directory
InThumbNoLength ==
  <<255, 216, 255, 225, 0, 55, 69, 120, 105, 102, 0, 0, 73, 73, 42, 0, 8,
    0, 0, 0, 1, 0, 18, 1, 3, 0, 1, 0, 0, 0, 1, 0, 0, 0, 26, 0, 0, 0, 1, 0,
    1, 2, 4, 0, 1, 0, 0, 0, 44, 0, 0, 0, 0, 0, 0, 0, 170, 187, 204, 255, 217>>

\* InThumb with the JPEG-length entry declaring nine bytes where three are left
InThumbShort ==
  <<255, 216, 255, 225, 0, 67, 69, 120, 105, 102, 0, 0, 73, 73, 42, 0, 8,
    0, 0, 0, 1, 0, 18, 1, 3, 0, 1, 0, 0, 0, 1, 0, 0, 0, 26, 0, 0, 0, 2, 0,
    1, 2, 4, 0, 1, 0, 0, 0, 56, 0, 0, 0, 2, 2, 4, 0, 1, 0, 0, 0, 9, 0, 0,
    0, 0, 0, 0, 0, 170, 187, 204, 255, 217>>

\* Primary [Make = "FUJIFILM", EXIF pointer -> [MakerNote -> "FUJIFILM", the
\*   offset 12 and a FujiFilm directory with one SHORT entry]]
InFuji ==
  <<255, 216, 255, 225, 0, 103, 69, 120, 105, 102, 0, 0, 73, 73, 42, 0, 8,
    0, 0, 0, 2, 0, 15, 1, 2, 0, 9, 0, 0, 0, 38, 0, 0, 0, 105, 135, 4, 0, 1,
    0, 0, 0, 47, 0, 0, 0, 0, 0, 0, 0, 70, 85, 74, 73, 70, 73, 76, 77, 0, 1,
    0, 124, 146, 7, 0, 30, 0, 0, 0, 65, 0, 0, 0, 0, 0, 0, 0, 70, 85, 74,
    73, 70, 73, 76, 77, 12, 0, 0, 0, 1, 0, 0, 16, 3, 0, 1, 0, 0, 0, 2, 0,
    0, 0, 0, 0, 0, 0, 255, 217>>

\* InNoExif with the two bytes "ab" after the end-of-image marker
InScanTrailing ==
  <<255, 216, 255, 224, 0, 4, 74, 70, 255, 218, 0, 3, 1, 17, 34, 255, 217,
    97, 98>>

\* SOS, then 0x11, an end-of-image marker, 0x22 and a second end-of-image marker
InScanTwoEoi ==
  <<255, 216, 255, 218, 0, 3, 1, 17, 255, 217, 34, 255, 217>>

\* the empty buffer
InEmpty ==
  <<>>

\* a buffer that does not start with SOI
InGarbage ==
  <<97, 115, 108, 59>>

Inputs ==
  {InBare, InNoExif, InOpaqueApp1, InExifNoIfd, InExifII, InExifMM, InCanonII,
   InCanonMM, InThumb, InGps, InDup, InGap, InMistyped,
   InUnknownMarker, InEmpty, InGarbage, InBadDelim, InTruncated, InBadEndian,
   InBadTiffTag, InThirdIfd, InShortApp1, InShiftedSig, InAsciiNoNul,
   InAsciiEmpty, InMakerFirst, InMakeAfter, InUnknownMake,
   InThumbNoOffset, InThumbNoLength, InThumbShort,
   InFuji,
   InScanTrailing, InScanTwoEoi}

(***************************************************************************)
(* The directories a caller reaches from a JpegFile: the Primary directory *)
(* jf.get_exif().get_primary(), its GPS and Exif sub-directories (through  *)
(* __getitem__) and the Thumbnail directory.                               *)
(***************************************************************************)
Targets == {"primary", "gps", "exif", "thumb"}

SubTag(target) == IF target = "gps" THEN GPSIFD ELSE EXIF_OFFSET

\* the index of the Exif segment get_exif() returns, 0 if it returns none
ExifIdx(segments) ==
  IF FirstApp1(segments, 1) # 0
     /\ segments[FirstApp1(segments, 1)].cls = "ExifSegment"
  THEN FirstApp1(segments, 1) ELSE 0

\* entries holds a sub-directory under tag that __getitem__ returns
HasSub(entries, tag) ==
  /\ IndexOf(entries, tag) # 0
  /\ entries[IndexOf(entries, tag)].val.k = "ifd"
  /\ entries[IndexOf(entries, tag)].type # ASCII

HasDir(segments, target) ==
  /\ ExifIdx(segments) # 0
  /\ Len(segments[ExifIdx(segments)].ifds) >= (IF target = "thumb" THEN 2 ELSE 1)
  /\ target \in {"gps", "exif"} =>
       HasSub(segments[ExifIdx(segments)].ifds[1].entries, SubTag(target))

IfdAt(ifds, target) ==
  CASE target = "primary" -> ifds[1]
    [] target = "thumb" -> ifds[2]
    [] OTHER -> ifds[1].entries[IndexOf(ifds[1].entries, SubTag(target))].val.v

DirAt(segments, target) == IfdAt(segments[ExifIdx(segments)].ifds, target)

PutIfd(ifds, target, d) ==
  CASE target = "primary" -> [ifds EXCEPT ![1] = d]
    [] target = "thumb" -> [ifds EXCEPT ![2] = d]
    [] OTHER ->
         [ifds EXCEPT ![1].entries[IndexOf(ifds[1].entries, SubTag(target))].val =
            IfdVal(d)]

PutDir(segments, target, d) ==
  [segments EXCEPT ![ExifIdx(segments)].ifds =
     PutIfd(segments[ExifIdx(segments)].ifds, target, d)]

(***************************************************************************)
(* The arguments the operations are called with                            *)
(***************************************************************************)
MaxOps == 2

\* the tags set is called with, per directory class
SetTags(cls) ==
  CASE cls = "IfdTIFF" -> {Make, Orientation}
    [] cls = "IfdThumbnail" -> {Orientation, JPEGInterchangeFormatLength}
    [] cls = "IfdGPS" -> {GPSLatitudeRef, GPSVersionID}
    [] cls = "IfdExtendedEXIF" -> {DateTimeOriginal, ExifVersion}
    [] OTHER -> {}

\* "S", "S\0", "\0S"
StrValues == {PyStr(<<83>>), PyStr(<<83, 0>>), PyStr(<<0, 83>>)}

\* the values set is called with for a tag of this type (0: no type declared)
ValuesFor(type) ==
  CASE type = ASCII -> StrValues \cup {None}
    [] type \in {BYTE, UNDEFINED} -> {Chars(<<2, 2, 0, 0>>), None}
    [] OTHER -> {Ints(<<3>>), None}

DictType(cls, tag) ==
  IF tag \in DOMAIN TypedTags(cls) THEN TypedTags(cls)[tag] ELSE 0

\* latitude and longitude in 1/Micro degree
GeoCoords == {<<0 - 37312312, 45412321>>, <<51522000, 0 - 1455000>>}

(***************************************************************************)
(* The state machine: one JpegFile loaded from input, the operations a     *)
(* caller applies to it, the string written from it (out), the string the  *)
(* write before that returned (prevOut), the JpegFile loaded from out      *)
(* (jf2) and the string written from that (out2).  last records the last   *)
(* operation applied to jf, nops counts them.                              *)
(***************************************************************************)
NoFile == [st |-> "none"]
NoOut == [st |-> "none"]
Loaded(segments) == [st |-> "loaded", segments |-> segments]
Failed(err) == [st |-> "failed", err |-> err]
Written(bytes) == [st |-> "ok", bytes |-> bytes]

\* what fromString returned or raised
FileOf(r) == IF r.ok THEN Loaded(r.segments) ELSE Failed(r.err)

\* what writeString returned or raised
OutOf(r) == IF r.ok THEN Written(r.bytes) ELSE Failed(r.err)

ErrOf(r) == IF r.ok THEN "" ELSE r.err

Init ==
  /\ input \in Inputs
  /\ jf = NoFile
  /\ out = NoOut
  /\ prevOut = NoOut
  /\ jf2 = NoFile
  /\ out2 = NoOut
  /\ last = [op |-> "init"]
  /\ nops = 0

\* jf = JpegFile.fromString(input)
Load ==
  /\ jf.st = "none"
  /\ jf' = FileOf(fromString(input))
  /\ last' = [op |-> "load"]
  /\ UNCHANGED <<input, out, prevOut, jf2, out2, nops>>

\* a call that may change jf invalidates what was written from it
Mutated ==
  /\ out' = NoOut
  /\ prevOut' = NoOut
  /\ jf2' = NoFile
  /\ out2' = NoOut
  /\ nops' = nops + 1
  /\ UNCHANGED input

\* jf.get_exif(create)
GetExif(create) ==
  /\ jf.st = "loaded"
  /\ nops < MaxOps
  /\ \E r \in {get_exif(jf.segments, create)} :
       /\ jf' = Loaded(r.segments)
       /\ last' = [op |-> "get_exif", create |-> create, ok |-> TRUE,
                   seg |-> r.seg, before |-> jf.segments]
  /\ Mutated

\* jf.get_exif().get_primary(create), when get_exif() returns a segment
GetPrimary(create) ==
  /\ jf.st = "loaded"
  /\ nops < MaxOps
  /\ FirstApp1(jf.segments, 1) # 0
  /\ \E si \in {FirstApp1(jf.segments, 1)} :
       \E r \in {get_primary(jf.segments[si], create)} :
         /\ jf' = IF r.ok THEN Loaded([jf.segments EXCEPT ![si] = r.seg]) ELSE jf
         /\ last' = [op |-> "get_primary", create |-> create, ok |-> r.ok,
                     err |-> ErrOf(r), before |-> jf.segments]
  /\ Mutated

\* d[tag] = value on a directory d the caller reaches
SetTag(target, tag, value) ==
  /\ jf.st = "loaded"
  /\ nops < MaxOps
  /\ HasDir(jf.segments, target)
  /\ \E d \in {DirAt(jf.segments, target)} :
       /\ tag \in SetTags(d.cls)
       /\ value \in ValuesFor(DictType(d.cls, tag))
       /\ \E r \in {setitem(d, tag, value)} :
            /\ jf' = IF r.ok THEN Loaded(PutDir(jf.segments, target, r.ifd))
                     ELSE jf
            /\ last' = [op |-> "set", target |-> target, tag |-> tag,
                        value |-> value, ok |-> r.ok, err |-> ErrOf(r),
                        before |-> d]
  /\ Mutated

\* jf.get_exif().get_primary().new_gps()
NewGps ==
  /\ jf.st = "loaded"
  /\ nops < MaxOps
  /\ HasDir(jf.segments, "primary")
  /\ \E d \in {DirAt(jf.segments, "primary")} :
       \E r \in {new_gps(d)} :
         /\ jf' = IF r.ok THEN Loaded(PutDir(jf.segments, "primary", r.ifd))
                  ELSE jf
         /\ last' = [op |-> "new_gps", ok |-> r.ok, err |-> ErrOf(r),
                     res |-> r, before |-> d]
  /\ Mutated

\* jf.set_geo(lat, lng)
SetGeo(lat, lng, fuzz) ==
  /\ jf.st = "loaded"
  /\ nops < MaxOps
  /\ \E r \in {set_geo(jf.segments, lat, lng, fuzz)} :
       /\ jf' = Loaded(r.segments)
       /\ last' = [op |-> "set_geo", lat |-> lat, lng |-> lng, ok |-> r.ok,
                   err |-> ErrOf(r), before |-> jf.segments]
  /\ Mutated

\* jf.get_geo(), called before anything is written; the call changes nothing
GetGeo ==
  /\ jf.st = "loaded"
  /\ nops < MaxOps
  /\ out.st = "none"
  /\ \E r \in {get_geo(jf.segments)} :
       last' = [op |-> "get_geo", ok |-> r.ok, err |-> ErrOf(r), res |-> r,
                before |-> jf.segments]
  /\ nops' = nops + 1
  /\ UNCHANGED <<input, jf, out, prevOut, jf2, out2>>

\* out = jf.writeString(); prevOut keeps what the write before it returned,
\* and no third write in a row is followed
Write ==
  /\ jf.st = "loaded"
  /\ prevOut.st = "none"
  /\ \E r \in {writeString(jf.segments)} :
       /\ jf' = Loaded(r.segments)
       /\ out' = OutOf(r)
  /\ prevOut' = out
  /\ jf2' = NoFile
  /\ out2' = NoOut
  /\ UNCHANGED <<input, last, nops>>

\* jf2 = JpegFile.fromString(out), out being the first string written
Reload ==
  /\ out.st = "ok"
  /\ prevOut.st = "none"
  /\ jf2.st = "none"
  /\ jf2' = FileOf(fromString(out.bytes))
  /\ UNCHANGED <<input, jf, out, prevOut, out2, last, nops>>

\* out2 = jf2.writeString()
Rewrite ==
  /\ jf2.st = "loaded"
  /\ out2.st = "none"
  /\ \E r \in {writeString(jf2.segments)} :
       /\ jf2' = Loaded(r.segments)
       /\ out2' = OutOf(r)
  /\ UNCHANGED <<input, jf, out, prevOut, last, nops>>

Next ==
  \/ Load
  \/ \E create \in BOOLEAN : GetExif(create)
  \/ \E create \in BOOLEAN : GetPrimary(create)
  \/ \E target \in Targets :
       \E tag \in {Make, Orientation, GPSLatitudeRef, GPSVersionID,
                   DateTimeOriginal, ExifVersion, JPEGInterchangeFormatLength} :
         \E value \in StrValues \cup {None, Chars(<<2, 2, 0, 0>>), Ints(<<3>>)} :
           SetTag(target, tag, value)
  \/ NewGps
  \/ \E c \in GeoCoords : \E fuzz \in {0, 1} : SetGeo(c[1], c[2], fuzz)
  \/ GetGeo
  \/ Write
  \/ Reload
  \/ Rewrite

Spec == Init /\ [][Next]_vars

(***************************************************************************)
(* Properties                                                              *)
(***************************************************************************)
\* jf is as fromString(input) left it
Untouched == jf.st = "loaded" /\ nops = 0

\* the last operation was d[tag] = value
LastSet == last.op = "set"

\* the directory the last set was applied to, as it is now
SetDir == DirAt(jf.segments, last.target)

HasApp1(segments) == \E i \in 1..Len(segments) : segments[i].marker = APP1

\* no two entries of the sequence carry the same tag
UniqueTags(entries) ==
  \A i, j \in 1..Len(entries) : entries[i].tag = entries[j].tag => i = j

\* neither d nor a directory below it holds two entries with the same tag
RECURSIVE UniqueBelow(_)
UniqueBelow(d) ==
  /\ UniqueTags(d.entries)
  /\ \A i \in 1..Len(d.entries) :
       d.entries[i].val.k = "ifd" => UniqueBelow(d.entries[i].val.v)

\* C1: a stream that loads is written back byte for byte when nothing was
\* changed in between: out = input after fromString(input).writeString().
C1_RoundTripIdentity ==
  (Untouched /\ out.st # "none") => out = Written(input)

\* C2: re-encoding is idempotent: the file written from an unchanged jf loads
\* again and writes the same bytes, and two writeString calls in a row on the
\* same JpegFile return the same bytes.
C2_IdempotentReencode ==
  /\ (Untouched /\ jf2.st # "none") => jf2.st = "loaded"
  /\ (Untouched /\ out2.st # "none") => out2 = out
  /\ prevOut.st # "none" => out = prevOut

\* C3: after new_gps and tag set operations the file can be written and
\* loaded again, and the directories loaded equal the directories in memory.
C3_MutationsSurvive ==
  (nops > 0 /\ last.op \in {"set", "new_gps"} /\ last.ok /\ out.st # "none") =>
    /\ out.st = "ok"
    /\ jf2.st # "none" =>
         /\ jf2.st = "loaded"
         /\ ExifIdx(jf2.segments) # 0
         /\ jf2.segments[ExifIdx(jf2.segments)].ifds
              = jf.segments[ExifIdx(jf.segments)].ifds

\* C4: d.set(t, v) succeeds for every tag of the directory's dictionary and
\* d.get(t) then returns v; after d.set(t, absent) it returns absent.
C4_SetGetConsistency ==
  (LastSet /\ out.st = "none") =>
    /\ last.ok
    /\ getitem(SetDir, last.tag) = [ok |-> TRUE, val |-> last.value]

\* C5: after d.set(t, absent) no entry of d has tag t, whether or not one had
\* before, and the file can still be written.
C5_SetAbsentRemoves ==
  (LastSet /\ last.ok /\ last.value = None) =>
    /\ \A i \in 1..Len(SetDir.entries) : SetDir.entries[i].tag # last.tag
    /\ (nops = 1 /\ out.st # "none") => out.st = "ok"

\* C6: no directory of a loaded file, changed or not, holds two entries with
\* the same tag.
C6_TagUniqueness ==
  (jf.st = "loaded" /\ ExifIdx(jf.segments) # 0) =>
    \A i \in 1..Len(jf.segments[ExifIdx(jf.segments)].ifds) :
      UniqueBelow(jf.segments[ExifIdx(jf.segments)].ifds[i])

\* C7: setting an ASCII-typed tag to a string that does not end in NUL stores
\* the string with one NUL appended, and get returns the string as given.
C7_AsciiNulNormalization ==
  (LastSet /\ out.st = "none" /\ last.ok /\ last.value.k = "str"
     /\ DictType(last.before.cls, last.tag) = ASCII
     /\ (last.value.v = <<>> \/ last.value.v[Len(last.value.v)] # 0)) =>
    /\ SetDir.entries[IndexOf(SetDir.entries, last.tag)].val
         = PyStr(last.value.v \o <<0>>)
    /\ getitem(SetDir, last.tag) = [ok |-> TRUE, val |-> last.value]

\* get_geo returned a position within 1e-6 degree of (lat, lng), lat and lng
\* in 1/Micro degree
Near(g, lat, lng) ==
  /\ g.ok
  /\ Abs(g.lat - lat * (GeoUnit \div Micro)) < GeoUnit \div Micro
  /\ Abs(g.lng - lng * (GeoUnit \div Micro)) < GeoUnit \div Micro

\* C8: set_geo(lat, lng) succeeds whatever the file held before, the file can
\* be written and loaded, and get_geo on the loaded file returns (lat, lng)
\* within 1e-6 degree.
C8_GpsRoundTrip ==
  last.op = "set_geo" =>
    /\ last.ok
    /\ out.st # "none" => out.st = "ok"
    /\ jf2.st # "none" =>
         /\ jf2.st = "loaded"
         /\ Near(get_geo(jf2.segments), last.lat, last.lng)

\* C9: on a file without an APP1 segment get_exif() returns None, and
\* get_exif(create=True) returns a segment with which the file can be written
\* and loaded again, the loaded Exif segment then holding a directory.
C9_MissingExif ==
  (last.op = "get_exif" /\ nops = 1 /\ ~HasApp1(last.before)) =>
    /\ ~last.create => last.seg = 0
    /\ last.create =>
         /\ last.seg # 0
         /\ jf.segments[last.seg].cls = "ExifSegment"
         /\ out.st # "none" => out.st = "ok"
         /\ jf2.st # "none" =>
              /\ jf2.st = "loaded"
              /\ HasDir(jf2.segments, "primary")

C11_GetExifType ==
  last.op = "get_exif" =>
    /\ last.seg = 0 => ~last.create
    /\ last.seg # 0 =>
         /\ jf.segments[last.seg].cls = "ExifSegment"
         /\ get_primary(jf.segments[last.seg], FALSE).ok

\* C12: get_geo raises NoSection and changes nothing when the file has no
\* Exif segment, no Primary directory, or no GPS directory under it.
C12_GeoNoSection ==
  (last.op = "get_geo" /\ ~HasDir(last.before, "gps")) =>
    /\ ~last.ok
    /\ last.err = "NoSection"
    /\ out.st = "none" => jf.segments = last.before

\* the GPS directory new_gps makes: the version tag 2.2.0.0 and nothing else
FreshGps(e) ==
  Ifd("IfdGPS", e, <<Entry(GPSVersionID, BYTE, Chars(<<2, 2, 0, 0>>))>>, <<>>)

\* C13: new_gps on a Primary directory that holds a GPS pointer entry raises
\* the "Already have a GPS Ifd" error (a ValueError) and leaves the directory
\* as it was; otherwise it appends one GPS pointer entry whose value is a new
\* GPS directory holding only the version tag 2.2.0.0, and returns that
\* directory.
C13_NewGps ==
  (last.op = "new_gps" /\ out.st = "none") =>
    IF IndexOf(last.before.entries, GPSIFD) # 0
    THEN /\ ~last.ok
         /\ last.err = "ValueError"
         /\ DirAt(jf.segments, "primary") = last.before
    ELSE /\ last.ok
         /\ DirAt(jf.segments, "primary").entries
              = Append(last.before.entries,
                       Entry(GPSIFD, LONG, IfdVal(FreshGps(last.before.e))))
         /\ last.res.gps = FreshGps(last.before.e)

\* new_gps was refused on a directory whose GPS pointer an earlier new_gps added
C13_Refused ==
  /\ last.op = "new_gps"
  /\ out.st = "none"
  /\ nops = 2
  /\ ~last.ok
  /\ IndexOf(last.before.entries, GPSIFD) # 0
  /\ last.before.entries[IndexOf(last.before.entries, GPSIFD)].val
       = IfdVal(FreshGps(last.before.e))

(***************************************************************************)
(* The segments of a byte stream as the JPEG framing lays them out, read   *)
(* off the bytes: from position pos, the delimiter 0xFF, the marker, the   *)
(* two-byte big-endian size and size - 2 bytes of payload, up to the       *)
(* end-of-image marker or the start of the scan data.  how tells where the *)
(* walk stopped: "eoi", "scan", "delim" (no 0xFF where a delimiter is      *)
(* expected) or "short" (the bytes run out).                               *)
(***************************************************************************)
RECURSIVE Framing(_, _, _)
Framing(b, pos, acc) ==
  IF pos + 1 > Len(b) THEN [how |-> "short", frames |-> acc]
  ELSE IF b[pos] # DELIM THEN [how |-> "delim", frames |-> acc]
  ELSE IF b[pos + 1] = EOI THEN [how |-> "eoi", frames |-> acc]
  ELSE IF pos + 3 > Len(b) \/ pos + 1 + b[pos + 2] * 256 + b[pos + 3] > Len(b)
    THEN [how |-> "short", frames |-> acc]
  ELSE IF b[pos + 1] = SOS
    THEN [how |-> "scan",
          frames |-> Append(acc, [marker |-> SOS,
                                  data |-> SubSeq(b, pos + 4, pos + 1
                                             + b[pos + 2] * 256 + b[pos + 3])])]
  ELSE Framing(b, pos + 2 + b[pos + 2] * 256 + b[pos + 3],
               Append(acc, [marker |-> b[pos + 1],
                            data |-> SubSeq(b, pos + 4, pos + 1
                                       + b[pos + 2] * 256 + b[pos + 3])]))

\* the stream starts with the start-of-image marker
StartsWithSoi(b) == Len(b) >= 2 /\ SubSeq(b, 1, 2) = SOI_MARKER

\* b is what is left of a stream that loads when bytes are cut off its end
TruncatedStream(b) ==
  \E v \in Inputs :
    /\ Len(b) < Len(v)
    /\ SubSeq(v, 1, Len(b)) = b
    /\ fromString(v).ok

\* C14: loading a buffer that is empty, that does not start with the
\* start-of-image marker, that has another byte than 0xFF where a delimiter is
\* expected, or that is a truncated prefix of a stream that loads, raises
\* InvalidFile and yields no JpegFile.
C14_MalformedRejected ==
  (last.op = "load"
     /\ \/ ~StartsWithSoi(input)
        \/ Framing(input, 3, <<>>).how = "delim"
        \/ TruncatedStream(input)) =>
    jf = Failed("InvalidFile")

\* the TIFF blobs of the APP1 payloads of b that start with "Exif\0\0"
ExifBlobs(b) ==
  {SliceFrom(Framing(b, 3, <<>>).frames[i].data, TIFF_OFFSET) :
     i \in {j \in 1..Len(Framing(b, 3, <<>>).frames) :
              /\ Framing(b, 3, <<>>).frames[j].marker = APP1
              /\ Slice(Framing(b, 3, <<>>).frames[j].data, 0, TIFF_OFFSET)
                   = ExifSig \o <<0, 0>>}}

\* the endian marker of the blob is neither "II" nor "MM"
BadEndian(t) == Slice(t, 0, 2) \notin {<<73, 73>>, <<77, 77>>}

ByteOrder(t) == IF Slice(t, 0, 2) = <<73, 73>> THEN "<" ELSE ">"

\* the TIFF tag, read in the blob's byte order, is not 0x2A
BadTiffTag(t) ==
  /\ ~BadEndian(t)
  /\ Len(t) >= 8
  /\ UnpackH(ByteOrder(t), Slice(t, 2, 4)) # TIFF_TAG

\* the offset the directory at offset o chains to, 0 if there is none
ChainNext(t, o) ==
  IF o = 0 \/ Len(Slice(t, o, o + 2)) # 2
     \/ Len(NextField(ByteOrder(t), o, t)) # 4
  THEN 0
  ELSE UnpackI(ByteOrder(t), NextField(ByteOrder(t), o, t))

\* the blob's chain of top-level directories has a third directory
ThirdDirectory(t) ==
  /\ ~BadEndian(t)
  /\ Len(t) >= 8
  /\ ~BadTiffTag(t)
  /\ ChainNext(t, ChainNext(t, UnpackI(ByteOrder(t), Slice(t, 4, 8)))) # 0

\* C15: when an APP1 payload of the stream carries the Exif signature and its
\* endian marker is neither "II" nor "MM", or its TIFF tag is not 0x2A, or its
\* directory chain has a third directory, the load raises InvalidFile and
\* yields no JpegFile.
C15_ExifHeaderRejected ==
  (last.op = "load"
     /\ \E t \in ExifBlobs(input) :
          BadEndian(t) \/ BadTiffTag(t) \/ ThirdDirectory(t)) =>
    jf = Failed("InvalidFile")

\* a stream with a third directory has been refused
C15_ThirdRefused ==
  /\ last.op = "load"
  /\ \E t \in ExifBlobs(input) : ThirdDirectory(t)
  /\ jf = Failed("InvalidFile")

\* the stream is the start-of-image marker and whole segments up to the
\* end-of-image marker or the scan data
WellFramed(b) ==
  StartsWithSoi(b) /\ Framing(b, 3, <<>>).how \in {"eoi", "scan"}

\* the payload starts with the six bytes "Exif\0\0"
ExifSigned(data) == Slice(data, 0, TIFF_OFFSET) = ExifSig \o <<0, 0>>

\* C16: an APP1 payload whose first six bytes are not exactly "Exif\0\0",
\* whatever its length, is declined by the Exif decoder and kept as an opaque
\* segment with the payload unchanged, and the load succeeds: in a well-framed
\* stream of known markers without an Exif-signed APP1 payload every APP1
\* segment is loaded as a DefaultSegment holding its payload.
C16_InvalidSegmentCaught ==
  (last.op = "load" /\ WellFramed(input)
     /\ \A i \in 1..Len(Framing(input, 3, <<>>).frames) :
          /\ Framing(input, 3, <<>>).frames[i].marker \in JpegMarkers
          /\ Framing(input, 3, <<>>).frames[i].marker = APP1 =>
               ~ExifSigned(Framing(input, 3, <<>>).frames[i].data)) =>
    /\ jf.st = "loaded"
    /\ Len(jf.segments) = Len(Framing(input, 3, <<>>).frames)
    /\ \A i \in 1..Len(jf.segments) :
         jf.segments[i].marker = APP1 =>
           /\ jf.segments[i].cls = "DefaultSegment"
           /\ jf.segments[i].data = PyStr(Framing(input, 3, <<>>).frames[i].data)

\* C17: every marker code other than end-of-image, recognized or not, gives
\* one segment holding the marker code and the declared payload, written back
\* unchanged: a well-framed stream without APP1 segments loads into one segment
\* per frame, with the frame's marker and payload, and is written back as it
\* was.
C17_OpaqueFallback ==
  (last.op = "load" /\ WellFramed(input)
     /\ \A i \in 1..Len(Framing(input, 3, <<>>).frames) :
          Framing(input, 3, <<>>).frames[i].marker # APP1) =>
    /\ jf.st = "loaded"
    /\ Len(jf.segments) = Len(Framing(input, 3, <<>>).frames)
    /\ \A i \in 1..Len(jf.segments) :
         /\ jf.segments[i].marker = Framing(input, 3, <<>>).frames[i].marker
         /\ jf.segments[i].data = PyStr(Framing(input, 3, <<>>).frames[i].data)
    /\ out.st # "none" => out = Written(input)

\* every ASCII entry of d and of the directories below it holds a string that
\* ends in NUL
RECURSIVE AsciiTerminated(_)
AsciiTerminated(d) ==
  \A i \in 1..Len(d.entries) :
    /\ (d.entries[i].type = ASCII /\ d.entries[i].val.k = "str") =>
         /\ d.entries[i].val.v # <<>>
         /\ d.entries[i].val.v[Len(d.entries[i].val.v)] = 0
    /\ d.entries[i].val.k = "ifd" => AsciiTerminated(d.entries[i].val.v)

\* C18: an ASCII entry whose bytes do not end in NUL is decoded into the bytes
\* with one NUL appended: the stream is not rejected, and no ASCII entry of a
\* file just loaded is left unterminated.
C18_AsciiLeniency ==
  last.op = "load" =>
    /\ input \in {InAsciiNoNul, InAsciiEmpty} => jf.st = "loaded"
    /\ (jf.st = "loaded" /\ ExifIdx(jf.segments) # 0) =>
         \A i \in 1..Len(jf.segments[ExifIdx(jf.segments)].ifds) :
           AsciiTerminated(jf.segments[ExifIdx(jf.segments)].ifds[i])
    /\ (input = InAsciiNoNul /\ jf.st = "loaded") =>
         DirAt(jf.segments, "primary").entries
           = <<Entry(Make, ASCII, PyStr(CanonStr \o <<0>>))>>

\* C19: when the maker-note decoder runs, the segment's make has been set
\* from the Primary directory's Make entry, wherever the Make entry and the
\* EXIF pointer entry stand in the entry table, so that no load ends in the
\* AttributeError of reading a make that was never set; without a Make entry
\* the maker-note decode raises InvalidFile.
C19_MakeBeforeMakerNote ==
  last.op = "load" =>
    /\ jf # Failed("AttributeError")
    /\ input = InMakeAfter => jf.st = "loaded"
    /\ input = InMakerFirst => jf = Failed("InvalidFile")

\* C20: with a Make that is neither Canon nor FUJIFILM and a maker-note entry
\* in the extended-EXIF directory, only the decoding of the maker note fails:
\* the load returns a JpegFile holding the stream's segments, the Exif segment
\* with its Primary directory among them.
C20_UnknownMakerIsolated ==
  (last.op = "load" /\ input = InUnknownMake) =>
    /\ jf.st = "loaded"
    /\ Len(jf.segments) = Len(Framing(input, 3, <<>>).frames)
    /\ HasDir(jf.segments, "primary")
    /\ getitem(DirAt(jf.segments, "primary"), Make).val
         = PyStr(<<78, 105, 107, 111, 110>>)

\* the offset of the second top-level directory of the blob, 0 if it has none
SecondDirectory(t) ==
  IF BadEndian(t) \/ Len(t) < 8 \/ BadTiffTag(t) THEN 0
  ELSE ChainNext(t, UnpackI(ByteOrder(t), Slice(t, 4, 8)))

\* the twelve bytes of entry i (from 0) in the table of the directory at o
TableEntry(t, o, i) == Slice(t, o + 2 + 12 * i, o + 14 + 12 * i)

\* the entries of the table at o that carry this tag
TaggedIn(t, o, tag) ==
  {i \in 0..(NumEntries(ByteOrder(t), o, t) - 1) :
     UnpackH(ByteOrder(t), SubSeq(TableEntry(t, o, i), 1, 2)) = tag}

\* the value field of the entry with this tag, read as one LONG
LongIn(t, o, tag) ==
  UnpackI(ByteOrder(t),
          SubSeq(TableEntry(t, o, CHOOSE i \in TaggedIn(t, o, tag) : TRUE), 9, 12))

\* the blob has a second and last directory whose JPEG-offset and JPEG-length
\* entries, where present, are single LONGs
HasThumbnailDirectory(t) ==
  /\ SecondDirectory(t) # 0
  /\ ~ThirdDirectory(t)
  /\ \A tag \in {JPEGInterchangeFormat, JPEGInterchangeFormatLength} :
       \A i \in TaggedIn(t, SecondDirectory(t), tag) :
         SubSeq(TableEntry(t, SecondDirectory(t), i), 3, 8)
           = PackH(ByteOrder(t), LONG) \o PackI(ByteOrder(t), 1)

\* the bytes the JPEG-offset and JPEG-length entries of the directory at o
\* designate are not all in the blob, or one of the entries is missing
NoThumbnailBytes(t, o) ==
  \/ TaggedIn(t, o, JPEGInterchangeFormat) = {}
  \/ TaggedIn(t, o, JPEGInterchangeFormatLength) = {}
  \/ LongIn(t, o, JPEGInterchangeFormat)
       + LongIn(t, o, JPEGInterchangeFormatLength) > Len(t)

\* C21: decoding the second top-level directory raises InvalidFile when the
\* JPEG-offset entry (0x201) or the JPEG-length entry (0x202) is missing or
\* when fewer than length bytes are left from offset in the TIFF blob;
\* otherwise the thumbnail kept is the length bytes of the blob from offset.
C21_ThumbnailExtraction ==
  last.op = "load" =>
    \A t \in ExifBlobs(input) :
      HasThumbnailDirectory(t) =>
        IF NoThumbnailBytes(t, SecondDirectory(t))
        THEN jf = Failed("InvalidFile")
        ELSE /\ jf.st = "loaded"
             /\ HasDir(jf.segments, "thumb")
             /\ DirAt(jf.segments, "thumb").jpeg_data
                  = SubSeq(t, LongIn(t, SecondDirectory(t), JPEGInterchangeFormat) + 1,
                           LongIn(t, SecondDirectory(t), JPEGInterchangeFormat)
                             + LongIn(t, SecondDirectory(t),
                                      JPEGInterchangeFormatLength))

\* a Thumbnail directory declaring more bytes than the blob holds was refused
C21_ShortRefused ==
  /\ last.op = "load"
  /\ jf = Failed("InvalidFile")
  /\ \E t \in ExifBlobs(input) :
       /\ HasThumbnailDirectory(t)
       /\ TaggedIn(t, SecondDirectory(t), JPEGInterchangeFormat) # {}
       /\ TaggedIn(t, SecondDirectory(t), JPEGInterchangeFormatLength) # {}
       /\ NoThumbnailBytes(t, SecondDirectory(t))

\* the Exif blob of the string written from jf
WrittenBlob == CHOOSE t \in ExifBlobs(out.bytes) : TRUE

\* C22: in the bytes written for a file with a Thumbnail directory, after any
\* tag set operations, the JPEG-offset entry holds the offset in the TIFF blob
\* at which the thumbnail was written and the JPEG-length entry holds its
\* length, and loading the bytes gives the same thumbnail.
C22_ThumbnailConsistency ==
  (jf.st = "loaded" /\ HasDir(jf.segments, "thumb") /\ out.st = "ok") =>
    /\ ExifBlobs(out.bytes) # {}
    /\ HasThumbnailDirectory(WrittenBlob)
    /\ ~NoThumbnailBytes(WrittenBlob, SecondDirectory(WrittenBlob))
    /\ LongIn(WrittenBlob, SecondDirectory(WrittenBlob),
              JPEGInterchangeFormatLength)
         = Len(DirAt(jf.segments, "thumb").jpeg_data)
    /\ SubSeq(WrittenBlob,
              LongIn(WrittenBlob, SecondDirectory(WrittenBlob),
                     JPEGInterchangeFormat) + 1,
              LongIn(WrittenBlob, SecondDirectory(WrittenBlob),
                     JPEGInterchangeFormat)
                + Len(DirAt(jf.segments, "thumb").jpeg_data))
         = DirAt(jf.segments, "thumb").jpeg_data
    /\ jf2.st # "none" =>
         /\ jf2.st = "loaded"
         /\ HasDir(jf2.segments, "thumb")
         /\ DirAt(jf2.segments, "thumb").jpeg_data
              = DirAt(jf.segments, "thumb").jpeg_data

\* d and the directories nested below it
RECURSIVE DirsBelow(_)
DirsBelow(d) ==
  {d} \cup UNION {DirsBelow(d.entries[i].val.v) :
                    i \in {j \in 1..Len(d.entries) : d.entries[j].val.k = "ifd"}}

\* the directories of the file's Exif segment, nested ones included
AllDirs(segments) ==
  UNION {DirsBelow(segments[ExifIdx(segments)].ifds[i]) :
           i \in 1..Len(segments[ExifIdx(segments)].ifds)}

\* how getdata is called: for the first directory of a chain that goes on
\* (offset 8, last = 0) and for a directory further on that ends one (last = 1)
EncodeCalls == {<<8, 0>>, <<38, 1>>}

\* C23: a directory encoded at start offset s (top-level, nested, Thumbnail
\* with its blob, FujiFilm with its header) returns as next free offset s plus
\* the length of the bytes returned, and neither assert of getdata fails.
C23_OffsetInvariant ==
  /\ out.st = "failed" => out.err # "AssertionError"
  /\ (jf.st = "loaded" /\ ExifIdx(jf.segments) # 0 /\ out.st = "none"
        /\ last.op \notin {"get_exif", "get_geo"}) =>
       \A d \in AllDirs(jf.segments) : \A c \in EncodeCalls :
         \A r \in {getdata(d, jf.segments[ExifIdx(jf.segments)].e, c[1], c[2])} :
           IF r.ok THEN r.next_offset = c[1] + Len(r.data)
           ELSE r.err # "AssertionError"

\* a FujiFilm directory below a changed directory was encoded
C23_FujiEncoded ==
  /\ jf.st = "loaded"
  /\ ExifIdx(jf.segments) # 0
  /\ out.st = "none"
  /\ nops > 0
  /\ \E d \in AllDirs(jf.segments) :
       /\ d.cls = "FujiIFD"
       /\ getdata(d, "<", 38, 1).ok
       /\ Len(getdata(d, "<", 38, 1).data) > 12

\* in the blob t, the table at offset o written for directory d holds every
\* entry of d whose value is a directory as (tag, LONG, 1, offset), the offset
\* lying behind the table, and so do the tables of the directories below d
RECURSIVE NestedAsLong(_, _, _)
NestedAsLong(t, o, d) ==
  \A i \in 1..Len(d.entries) :
    d.entries[i].val.k = "ifd" =>
      /\ SubSeq(TableEntry(t, o, i - 1), 1, 8)
           = PackH(ByteOrder(t), d.entries[i].tag)
               \o PackH(ByteOrder(t), LONG) \o PackI(ByteOrder(t), 1)
      /\ UnpackI(ByteOrder(t), SubSeq(TableEntry(t, o, i - 1), 9, 12))
           >= o + 2 + 12 * Len(d.entries) + 4
      /\ NestedAsLong(t, UnpackI(ByteOrder(t),
                                 SubSeq(TableEntry(t, o, i - 1), 9, 12)),
                      d.entries[i].val.v)

\* C24: an entry whose value is a nested directory (EXIF, GPS, Interop and
\* maker-note pointers), whatever type it was decoded with, is written as
\* type LONG, count 1 and the offset of the nested directory's bytes, which
\* lie behind the entry table.
C24_NestedEntryEncoding ==
  (jf.st = "loaded" /\ HasDir(jf.segments, "primary") /\ out.st = "ok") =>
    /\ ExifBlobs(out.bytes) # {}
    /\ NestedAsLong(WrittenBlob, 8, DirAt(jf.segments, "primary"))


(***************************************************************************)
(* Scan capture (StartOfScanSegment.__init__, lines 121-128).              *)
(***************************************************************************)
\* the index of the first byte behind the scan-start payload when the stream
\* frames up to a scan-start segment from the delimiter at index pos, else 0
RECURSIVE ScanDataStart(_, _)
ScanDataStart(b, pos) ==
  IF pos + 3 > Len(b) \/ b[pos] # DELIM \/ b[pos + 1] = EOI THEN 0
  ELSE IF pos + 1 + b[pos + 2] * 256 + b[pos + 3] > Len(b) THEN 0
  ELSE IF b[pos + 1] = SOS THEN pos + 2 + b[pos + 2] * 256 + b[pos + 3]
  ELSE ScanDataStart(b, pos + 2 + b[pos + 2] * 256 + b[pos + 3])

\* the indexes at or behind from where an end-of-image marker starts
EoiFrom(b, from) ==
  {q \in from..(Len(b) - 1) : b[q] = DELIM /\ b[q + 1] = EOI}

\* the index of the first end-of-image marker at or behind from
FirstEoi(b, from) == CHOOSE q \in EoiFrom(b, from) : \A x \in EoiFrom(b, from) : q <= x

\* the stream has scan data that an end-of-image marker closes, behind
\* segments that load
ScanClosed(b) ==
  /\ StartsWithSoi(b)
  /\ ScanDataStart(b, 3) # 0
  /\ EoiFrom(b, ScanDataStart(b, 3)) # {}
  /\ fromString(SubSeq(b, 1, ScanDataStart(b, 3) - 1) \o <<DELIM, EOI>>).ok

\* C25: scan capture ends at the first end-of-image marker: a stream whose
\* scan data is closed by an end-of-image marker loads, whatever follows that
\* marker; the scan segment is the last segment of the list and its image data
\* is the bytes between the end of the scan-start payload and the first
\* end-of-image marker.
C25_ScanCaptureBoundary ==
  (last.op = "load" /\ ScanClosed(input)) =>
    /\ jf.st = "loaded"
    /\ Len(jf.segments) > 0
    /\ jf.segments[Len(jf.segments)].cls = "StartOfScanSegment"
    /\ jf.segments[Len(jf.segments)].img_data
         = SubSeq(input, ScanDataStart(input, 3),
                  FirstEoi(input, ScanDataStart(input, 3)) - 1)


(***************************************************************************)
(* Byte order of an encoded directory (getdata, lines 328-387).            *)
(***************************************************************************)
\* the directory block of what getdata returned: FujiIFD.getdata puts twelve
\* bytes before it
Block(d, data) == IF d.cls = "FujiIFD" THEN SliceFrom(data, 12) ELSE data

\* the offset the block's value fields count from
BlockBase(d, offset) == IF d.cls = "FujiIFD" THEN 12 ELSE offset

\* the four-byte field of entry i holds, in byte order o, the entry's value or
\* an offset into the bytes behind the entry table
ValueIn(t, d, o, base, i) ==
  IF d.entries[i].val.k # "ifd"
     /\ exif_type_size(d.entries[i].type) * Len(d.entries[i].val.v) <= 4
  THEN \A v \in {EncodeValue(o, d.entries[i].type, d.entries[i].val)} :
         v.ok => Slice(t, 10 + 12 * (i - 1), 14 + 12 * (i - 1))
                   = v.bytes \o Zeros(4 - Len(v.bytes))
  ELSE /\ UnpackI(o, Slice(t, 10 + 12 * (i - 1), 14 + 12 * (i - 1)))
            >= base + 2 + 12 * Len(d.entries) + 4
       /\ UnpackI(o, Slice(t, 10 + 12 * (i - 1), 14 + 12 * (i - 1)))
            < base + Len(t)

\* the block t of directory d, encoded as the last of its chain, has its entry
\* count, its entry headers, its value fields and its next-directory offset in
\* byte order o
OneOrder(t, d, o, base) ==
  /\ Slice(t, 0, 2) = PackH(o, Len(d.entries))
  /\ \A i \in 1..Len(d.entries) :
       /\ Slice(t, 2 + 12 * (i - 1), 4 + 12 * (i - 1)) = PackH(o, d.entries[i].tag)
       /\ UnpackH(o, Slice(t, 4 + 12 * (i - 1), 6 + 12 * (i - 1))) \in 1..10
       /\ UnpackI(o, Slice(t, 6 + 12 * (i - 1), 10 + 12 * (i - 1))) < 65536
       /\ ValueIn(t, d, o, base, i)
  /\ Slice(t, 2 + 12 * Len(d.entries), 6 + 12 * Len(d.entries)) = PackI(o, 0)

\* the byte orders a directory may be written in: little-endian for the Canon
\* and FujiFilm maker notes, either order for the others
OrdersOf(d) == IF d.cls \in {"CanonIFD", "FujiIFD"} THEN {"<"} ELSE {"<", ">"}

\* C26: every directory of a file that has been written is encoded in one
\* byte order: entry count, entry headers, value and offset fields and the
\* next-directory offset agree on it, and for Canon and FujiFilm maker-note
\* directories it is little-endian whatever the byte order of the file.
C26_OneByteOrder ==
  (jf.st = "loaded" /\ ExifIdx(jf.segments) # 0 /\ out.st = "ok") =>
    \A d \in AllDirs(jf.segments) :
      \A r \in {getdata(d, jf.segments[ExifIdx(jf.segments)].e, 38, 1)} :
        r.ok => \E o \in OrdersOf(d) :
                  OneOrder(Block(d, r.data), AfterExtra(d, BlockBase(d, 38)), o,
                           BlockBase(d, 38))


(***************************************************************************)
(* Frame of a tag set (IfdData.__setitem__, lines 220-241).                *)
(***************************************************************************)
\* the value v as an entry of this type holds it, or v with the NUL appended
StoredAs(v) ==
  IF v.k = "str" THEN {v, PyStr(v.v \o <<0>>)} ELSE {v}

\* b with the value of entry i replaced: position, tag and type stay
Replaced(b, a, i, v) ==
  /\ Len(a) = Len(b)
  /\ \A j \in 1..Len(b) : j # i => a[j] = b[j]
  /\ a[i].tag = b[i].tag
  /\ a[i].type = b[i].type
  /\ a[i].val \in StoredAs(v)

\* b with one entry for the tag, of the dictionary's type, behind its end
Appended(b, a, tag, type, v) ==
  /\ Len(a) = Len(b) + 1
  /\ SubSeq(a, 1, Len(b)) = b
  /\ a[Len(a)].tag = tag
  /\ a[Len(a)].type = type
  /\ a[Len(a)].val \in StoredAs(v)

\* the first entry of b with the tag, 0 without one
FirstWith(b, tag) ==
  IF \E j \in 1..Len(b) : b[j].tag = tag
  THEN CHOOSE j \in 1..Len(b) :
         b[j].tag = tag /\ \A k \in 1..(j - 1) : b[k].tag # tag
  ELSE 0

====
